---------------------------- MODULE Spec2Model ----------------------------
(***************************************************************************)
(* The constraint-compilation layer of CPMpy's solver interfaces:          *)
(*   - CPM_exact (cpmpy/solvers/exact.py), the flat pseudo-Boolean/linear  *)
(*     backend: solver_var, _make_numexpr, _add_xct_*, _post_constraint,    *)
(*     objective, getSolAndObj, solve, solveAll;                           *)
(*   - CPM_z3 (cpmpy/solvers/z3.py), the nested-expression backend:        *)
(*     solver_var, solve.                                                  *)
(* Python exceptions are modelled by the name of the exception class; a    *)
(* handler that raises keeps the mutations it made before raising.         *)
(***************************************************************************)
EXTENDS Integers, Sequences, FiniteSets, TLC

VARIABLES
    backend,            \* "exact" | "z3": the class of the session object
    has_objective,      \* CPM_exact.has_objective
    objective_minimize, \* CPM_exact.objective_minimize
    user_vars,          \* SolverInterface.user_vars: set of variable names
    varmap,             \* SolverInterface._varmap: variable name -> handle
    value,              \* cpm_var._value of every variable
    objective_value,    \* SolverInterface.objective_value_
    exitstatus,         \* SolverInterface.cpm_status.exitstatus
    xct_vars,           \* backend: variables declared with addVariable
    xct_cons,           \* backend: constraints posted so far
    xct_obj,            \* backend: the init(coefs, vars) calls received
    xct_timeout,        \* backend: the "timeout" option has been set
    xct_has_sol,        \* backend: hasSolution()
    xct_sol,            \* backend: the last solution, name -> integer
    xct_ub,             \* backend: getObjectiveBounds()[1]
    xct_blocked,        \* backend: solutions excluded by invalidateLastSol
    z3_cons,            \* z3 backend: assertions added with z3_solver.add
    z3_model,           \* z3 backend: the model of the last check, name -> integer
    calls,              \* the backend calls made by the last operation, in order
    lastOp,             \* the last operation called on the session, with its input
    ret,                \* what it returned, or the exception it raised
    pc,                 \* position inside solveAll ("idle" outside it)
    solsfound,          \* solveAll's local solsfound
    solution_limit,     \* solveAll's argument (NoLimit for None)
    xct_status,         \* what the last runOnce of the running solveAll returned
    xct_found,          \* how often runOnce returned 1 in the last solveAll
    enc_in,             \* one-hot encoder: the argument of the last intvar_to_boolvar
    ivarmap,            \* one-hot encoder: the ivarmap it returned, in insertion order
    enc_cons,           \* one-hot encoder: the constraints it returned
    bv_count,           \* number of Boolean variables created by boolvar() so far
    bv_value,           \* bv.value() of every Boolean variable created so far
    enc_sol,            \* what the last extract_solution returned
    numexpr             \* what the last direct call of _make_numexpr returned

\* the state of the one-hot encoder and of its decoder
encvars == <<enc_in, ivarmap, enc_cons, bv_count, bv_value, enc_sol>>

vars == <<backend, has_objective, objective_minimize, user_vars, varmap, value,
          objective_value, exitstatus, xct_vars, xct_cons, xct_obj, xct_timeout,
          xct_has_sol, xct_sol, xct_ub, xct_blocked, z3_cons, z3_model, calls,
          lastOp, ret, pc, solsfound, solution_limit, xct_status, xct_found,
          encvars, numexpr>>

---------------------------------------------------------------------------
(* Bounds of the model *)

\* inclusive upper bound of the integer variables x, y (domain [0, DomUb])
DomUb == 5

\* inclusive upper bound of the integer variable n (domain [0, SmallUb])
SmallUb == 1

\* the integer variable iv of the one-hot encoder has domain [EncLb, EncUb]
EncLb == 2
EncUb == 4

\* cap on the number of Boolean variables created by the one-hot encoder
MaxBvs == 6

\* cap on solveAll's counter solsfound
MaxSols == 5

\* 1e18, the magnitude above which exact.py passes numbers as strings.  TLC's
\* integers are 32-bit, so the model scales it down; the code only ever
\* compares magnitudes against it with >.
E18 == 1000

---------------------------------------------------------------------------
(* Decision variables (cpmpy/expressions/variables.py, used by both files) *)

BoolVars == {"a", "b", "c"}
SmallIntVars == {"x", "y", "n"}
BigIntVars == {"w", "z"}
IntVars == SmallIntVars \cup BigIntVars
\* a _NumVarImpl that is neither _IntVarImpl nor _BoolVarImpl
OtherVars == {"f"}
Vars == BoolVars \cup IntVars \cup OtherVars

VarLb(v) == IF v = "z" THEN -(E18 + 1) ELSE 0
VarUb(v) == CASE v \in BoolVars -> 1
              [] v = "n" -> SmallUb
              [] v \in SmallIntVars -> DomUb
              [] v = "w" -> E18
              [] OTHER -> E18 - 1

---------------------------------------------------------------------------
(* Expressions (cpmpy/expressions/core.py): one record shape for all nodes *)

Num(n) == [k |-> "num", name |-> "", val |-> n, ws |-> <<>>, args |-> <<>>]
Var(v) == [k |-> "var", name |-> v, val |-> 0, ws |-> <<>>, args |-> <<>>]
\* NegBoolView(v): v is its _bv
NegView(v) == [k |-> "neg", name |-> v, val |-> 0, ws |-> <<>>, args |-> <<>>]
Op(nm, as) == [k |-> "op", name |-> nm, val |-> 0, ws |-> <<>>, args |-> as]
\* Operator("wsum", [ws, as])
Wsum(w, as) == [k |-> "op", name |-> "wsum", val |-> 0, ws |-> w, args |-> as]
Cmp(nm, l, r) == [k |-> "cmp", name |-> nm, val |-> 0, ws |-> <<>>, args |-> <<l, r>>]
\* a Python list of expressions
List(as) == [k |-> "list", name |-> "", val |-> 0, ws |-> <<>>, args |-> as]
\* GlobalConstraint(nm, as)
Glob(nm, as) == [k |-> "glob", name |-> nm, val |-> 0, ws |-> <<>>, args |-> as]

is_num(e) == e.k = "num"
IsNumVarImpl(e) == e.k \in {"var", "neg"}
IsIntVarImpl(e) == e.k = "neg" \/ (e.k = "var" /\ e.name \in BoolVars \cup IntVars)
IsBoolVarImpl(e) == e.k = "neg" \/ (e.k = "var" /\ e.name \in BoolVars)
IsNegBoolView(e) == e.k = "neg"

Abs(n) == IF n < 0 THEN -n ELSE n
Max2(m, n) == IF m < n THEN n ELSE m
NegSeq(s) == [i \in DOMAIN s |-> -s[i]]

---------------------------------------------------------------------------
(* The compile context: the part of the session a compile step reads and   *)
(* writes, threaded through the calls of one handler.                       *)

NoErr == "none"

\* a handle of the exact interface is the variable's name (a Python str);
\* a z3 handle is a z3 constant of that name, or z3.Not of one.
Handle(v) == [name |-> v, not |-> FALSE]
NoHandle == [name |-> "", not |-> FALSE]

\* one call of the backend API
Call(fn, head, coefs, xvars, uselb, lb, useub, ub, enc) ==
    [fn |-> fn, head |-> head, coefs |-> coefs, vars |-> xvars, uselb |-> uselb,
     lb |-> lb, useub |-> useub, ub |-> ub, enc |-> enc]

Raise(c, e) == [c EXCEPT !.err = e]

\* numbers are passed as Python ints ("int") or as their decimal strings ("str")
Enc(maximum) == IF maximum > E18 THEN "str" ELSE "int"

\* lines 243-252: the addVariable call that declares variable v
Declaration(v) ==
    IF v \in BoolVars
    THEN Call("addVariable", Handle(v), <<>>, <<>>, TRUE, 0, TRUE, 1, "int")
    ELSE Call("addVariable", Handle(v), <<>>, <<>>, TRUE, VarLb(v), TRUE, VarUb(v),
              Enc(Max2(Abs(VarLb(v)), Abs(VarUb(v)))))

\* lines 242-256: declare v with the call decl and cache its handle
Declare(c, v, decl) ==
    [c |-> [c EXCEPT !.varmap = (v :> Handle(v)) @@ @,
                     !.xct_vars = @ \o <<decl>>,
                     !.calls = @ \o <<decl>>],
     h |-> Handle(v)]

\* CPM_exact.solver_var for a variable that is no NegBoolView
xct_solver_var_base(c, e) ==
    IF e.k = "var" /\ e.name \in DOMAIN c.varmap
    THEN [c |-> c, h |-> c.varmap[e.name]]
    ELSE IF e.k = "var" /\ (IsBoolVarImpl(e) \/ IsIntVarImpl(e))
    THEN Declare(c, e.name, Declaration(e.name))
    ELSE [c |-> Raise(c, "NotImplementedError"), h |-> NoHandle]

\* line 235: .Not() of the handle r.h returned for the base variable; r.h is
\* a str, which has no method Not
NotOfStr(r) ==
    IF r.c.err # NoErr THEN r
    ELSE [c |-> Raise(r.c, "AttributeError"), h |-> NoHandle]

\* xct_solver_var without the special case of line 234: a NegBoolView is
\* declared and cached under its own name
XctSolverVarCachingViews(c, e) ==
    IF c.err # NoErr THEN [c |-> c, h |-> NoHandle]
    ELSE IF is_num(e) THEN [c |-> Raise(c, "AssertionError"), h |-> NoHandle]
    ELSE IF IsNegBoolView(e) THEN Declare(c, "~" \o e.name, Declaration(e.name))
    ELSE xct_solver_var_base(c, e)

\* CPM_exact.solver_var: the handle of e and the context after the call
xct_solver_var(c, e) ==
    IF c.err # NoErr THEN [c |-> c, h |-> NoHandle]
    ELSE IF is_num(e) THEN [c |-> Raise(c, "AssertionError"), h |-> NoHandle]
    ELSE IF IsNegBoolView(e) THEN NotOfStr(xct_solver_var_base(c, Var(e.name)))
    ELSE xct_solver_var_base(c, e)

---------------------------------------------------------------------------
(* CPM_exact._make_numexpr *)

\* the accumulator of _make_numexpr: xcoefs, xvars, xrhs and the context
NumExpr(c, coefs, xvars, rhs) == [c |-> c, coefs |-> coefs, vars |-> xvars, rhs |-> rhs]

\* xcoefs += [coef]; xvars += [r.h], r being what solver_var returned
AppendTerm(m, coef, r) ==
    IF r.c.err # NoErr THEN [m EXCEPT !.c = r.c]
    ELSE NumExpr(r.c, m.coefs \o <<coef>>, m.vars \o <<r.h>>, m.rhs)

\* one more term coef * x, x not a number: xcoefs += [coef]; xvars += [solver_var(x)]
AddTerm(m, coef, x) == AppendTerm(m, coef, xct_solver_var(m.c, x))

\* LoopBody with every weight taken as 1
LoopBodyUnweighted(m, coef, x) ==
    IF is_num(x) THEN [m EXCEPT !.rhs = @ - x.val]
    ELSE AddTerm(m, 1, x)

\* one pass of the loops of lines 310-315 and 317-323: a constant argument is
\* folded into xrhs, any other becomes a term
LoopBody(m, coef, x) ==
    IF is_num(x) THEN [m EXCEPT !.rhs = @ - coef * x.val]
    ELSE AddTerm(m, coef, x)

\* the loop over lhs.args of a "sum", from argument i on
RECURSIVE SumLoop(_, _, _)
SumLoop(m, as, i) ==
    IF i > Len(as) \/ m.c.err # NoErr THEN m
    ELSE SumLoop(LoopBody(m, 1, as[i]), as, i + 1)

Min2(m, n) == IF m < n THEN m ELSE n

\* the loop over zip(*lhs.args) of a "wsum", from pair i on
RECURSIVE WsumLoop(_, _, _, _)
WsumLoop(m, ws, as, i) ==
    IF i > Min2(Len(ws), Len(as)) \/ m.c.err # NoErr THEN m
    ELSE WsumLoop(LoopBody(m, ws[i], as[i]), ws, as, i + 1)

\* the first half of _make_numexpr: the right-hand side
NumexprRhs(c, rhs) ==
    IF is_num(rhs) THEN NumExpr(c, <<>>, <<>>, rhs.val)
    ELSE IF IsNumVarImpl(rhs) THEN AddTerm(NumExpr(c, <<>>, <<>>, 0), -1, rhs)
    ELSE NumExpr(Raise(c, "NotImplementedError"), <<>>, <<>>, 0)

\* the second half of _make_numexpr: the left-hand side
NumexprLhs(m, lhs) ==
    IF m.c.err # NoErr THEN m
    ELSE IF is_num(lhs) THEN [m EXCEPT !.rhs = @ - lhs.val]
    ELSE IF IsNumVarImpl(lhs) THEN AddTerm(m, 1, lhs)
    ELSE IF lhs.name = "sum" THEN SumLoop(m, lhs.args, 1)
    ELSE IF lhs.name = "wsum" THEN WsumLoop(m, lhs.ws, lhs.args, 1)
    ELSE IF lhs.name = "sub"
    THEN IF Len(lhs.args) # 2 THEN [m EXCEPT !.c = Raise(m.c, "AssertionError")]
         ELSE AddTerm(AddTerm(m, 1, lhs.args[1]), -1, lhs.args[2])
    ELSE [m EXCEPT !.c = Raise(m.c, "NotImplementedError")]

make_numexpr(c, lhs, rhs) ==
    IF c.err # NoErr THEN NumExpr(c, <<>>, <<>>, 0)
    ELSE NumexprLhs(NumexprRhs(c, rhs), lhs)

\* no tuple was returned
NoNumExpr == [coefs |-> <<>>, vars |-> <<>>, rhs |-> 0]

\* line 331: the tuple (xcoefs, xvars, xrhs) that m returns; nothing is
\* returned when an exception was raised
ReturnedTuple(m) ==
    IF m.c.err # NoErr THEN NoNumExpr
    ELSE [coefs |-> m.coefs, vars |-> m.vars, rhs |-> m.rhs]

---------------------------------------------------------------------------
(* CPM_exact._add_xct_constr, _add_xct_reif_right, _add_xct_reif_left *)

RECURSIVE MaxAbs(_)
\* max([abs(x) for x in s]) of a non-empty list
MaxAbs(s) == IF Len(s) = 1 THEN Abs(s[1]) ELSE Max2(Abs(s[1]), MaxAbs(Tail(s)))

\* post a constraint call: recorded in the store and in the calls of the handler
Post(c, call) == [c EXCEPT !.xct_cons = @ \cup {call}, !.calls = @ \o <<call>>]

add_xct_constr(c, coefs, xvars, uselb, lb, useub, ub) ==
    IF c.err # NoErr THEN c
    ELSE IF coefs = <<>> THEN Raise(c, "ValueError")   \* max([]) 
    ELSE Post(c, Call("addConstraint", NoHandle, coefs, xvars, uselb, lb, useub, ub,
                      Enc(Max2(MaxAbs(coefs),
                               Max2(Abs(IF uselb THEN lb ELSE 0),
                                    Abs(IF useub THEN ub ELSE 0))))))

\* the two directional reifications differ only in the backend call they make
AddReif(fn, c, head, coefs, xvars, rhs) ==
    IF c.err # NoErr THEN c
    ELSE IF coefs = <<>> THEN Raise(c, "ValueError")   \* max([]) 
    ELSE Post(c, Call(fn, head, coefs, xvars, TRUE, rhs, FALSE, 0,
                      Enc(Max2(MaxAbs(coefs), Abs(rhs)))))

add_xct_reif_right(c, head, coefs, xvars, rhs) ==
    AddReif("addRightReification", c, head, coefs, xvars, rhs)

add_xct_reif_left(c, head, coefs, xvars, rhs) ==
    AddReif("addLeftReification", c, head, coefs, xvars, rhs)

---------------------------------------------------------------------------
(* CPM_exact._post_constraint *)

\* lines 434-435: the message of the NotImplementedError is formatted with
\* lhs.name, which a constant (a Python int) does not have
UnsupportedComparison(c, lhs) ==
    IF is_num(lhs) THEN Raise(c, "AttributeError") ELSE Raise(c, "NotImplementedError")

\* lines 414-435: the bounded-linear primitive of comparison nm with left
\* side lhs over the numeric expression m
PostBounded(nm, m, lhs) ==
    IF m.c.err # NoErr THEN m.c
    ELSE IF nm \in {"<=", ">=", "=="}
    THEN add_xct_constr(m.c, m.coefs, m.vars, nm # "<=", IF nm = "<=" THEN 0 ELSE m.rhs,
                        nm # ">=", IF nm = ">=" THEN 0 ELSE m.rhs)
    ELSE UnsupportedComparison(m.c, lhs)

\* the Comparison branch
PostComparison(c, e) ==
    PostBounded(e.name, make_numexpr(c, e.args[1], e.args[2]), e.args[1])

\* PostReif without the +1 / 1- shifts that turn the strict bound of a negated
\* condition into a non-strict integer bound
PostReifNoShift(c, nm, head, bool_val, coefs, xvars, rhs) ==
    IF c.err # NoErr THEN c
    ELSE IF nm = "==" THEN
        IF bool_val
        THEN add_xct_reif_right(add_xct_reif_right(c, head, coefs, xvars, rhs),
                                head, NegSeq(coefs), xvars, -rhs)
        ELSE add_xct_reif_left(add_xct_reif_left(c, head, coefs, xvars, rhs),
                               head, NegSeq(coefs), xvars, -rhs)
    ELSE IF nm = ">=" THEN
        IF bool_val
        THEN add_xct_reif_right(c, head, coefs, xvars, rhs)
        ELSE add_xct_reif_left(c, head, NegSeq(coefs), xvars, -rhs)
    ELSE IF nm = "<=" THEN
        IF bool_val
        THEN add_xct_reif_right(c, head, NegSeq(coefs), xvars, -rhs)
        ELSE add_xct_reif_left(c, head, coefs, xvars, rhs)
    ELSE Raise(c, "NotImplementedError")

\* the six reification cases, after cond has been resolved to (head, bool_val)
PostReif(c, nm, head, bool_val, coefs, xvars, rhs) ==
    IF c.err # NoErr THEN c
    ELSE IF nm = "==" THEN
        IF bool_val
        THEN add_xct_reif_right(add_xct_reif_right(c, head, coefs, xvars, rhs),
                                head, NegSeq(coefs), xvars, -rhs)
        ELSE add_xct_reif_left(add_xct_reif_left(c, head, coefs, xvars, 1 + rhs),
                               head, NegSeq(coefs), xvars, 1 - rhs)
    ELSE IF nm = ">=" THEN
        IF bool_val
        THEN add_xct_reif_right(c, head, coefs, xvars, rhs)
        ELSE add_xct_reif_left(c, head, NegSeq(coefs), xvars, 1 - rhs)
    ELSE IF nm = "<=" THEN
        IF bool_val
        THEN add_xct_reif_right(c, head, NegSeq(coefs), xvars, -rhs)
        ELSE add_xct_reif_left(c, head, coefs, xvars, 1 + rhs)
    ELSE Raise(c, "NotImplementedError")

\* lines 454-489 for the handle r that solver_var returned for the condition
PostReifOf(r, nm, bool_val, m) ==
    PostReif(r.c, nm, r.h, bool_val, m.coefs, m.vars, m.rhs)

\* lines 449-489: resolve the condition, then post the reifications of the
\* numeric expression m
PostCond(m, cond, nm) ==
    PostReifOf(xct_solver_var(m.c, Var(cond.name)), nm, ~IsNegBoolView(cond), m)

\* PostIndicator without the assertion of line 445 on the left side of the
\* comparison
PostIndicatorAnyLhs(c, e) ==
    LET cond == e.args[1]
        sub_expr == e.args[2]
    IN IF ~IsBoolVarImpl(cond) THEN Raise(c, "AssertionError")
       ELSE IF sub_expr.k # "cmp" THEN Raise(c, "AssertionError")
       ELSE PostCond(make_numexpr(c, sub_expr.args[1], sub_expr.args[2]), cond, sub_expr.name)

\* the "->" branch: cond -> sub_expr
PostIndicator(c, e) ==
    LET cond == e.args[1]
        sub_expr == e.args[2]
    IN IF ~IsBoolVarImpl(cond) THEN Raise(c, "AssertionError")
       ELSE IF sub_expr.k # "cmp" THEN Raise(c, "AssertionError")
       ELSE LET lhs == sub_expr.args[1]
                rhs == sub_expr.args[2]
            IN  \* isinstance(lhs, _NumVarImpl) or lhs.name == ...: an int has no name
                IF is_num(lhs) THEN Raise(c, "AttributeError")
                ELSE IF ~(IsNumVarImpl(lhs) \/ lhs.name = "sum" \/ lhs.name = "wsum")
                THEN Raise(c, "AssertionError")
                ELSE PostCond(make_numexpr(c, lhs, rhs), cond, sub_expr.name)

\* _post_constraint(cpm_expr) for a primitive (non-global) constraint
post_constraint(c, e) ==
    IF c.err # NoErr THEN c
    ELSE IF e.k = "cmp" THEN PostComparison(c, e)
    ELSE IF e.k = "op" /\ e.name = "->" THEN PostIndicator(c, e)
    ELSE Raise(c, "AttributeError")   \* cpm_expr.decompose() of a non-global

---------------------------------------------------------------------------
(* Values held by the Python side *)

NoneVal == [t |-> "none", n |-> 0]
IntVal(n) == [t |-> "int", n |-> n]
\* bool(n)
BoolVal(n) == [t |-> "bool", n |-> IF n # 0 THEN 1 ELSE 0]

\* what an operation returned: exc is the exception raised (NoErr if none),
\* b a returned truth value, n a returned number, h a returned handle
Ret(exc, b, n, h) == [exc |-> exc, b |-> b, n |-> n, h |-> h]
RetNone == Ret(NoErr, FALSE, 0, NoHandle)

\* the operation called last: its name, its expression argument and its flag
\* argument (minimize of objective, "time_limit is not None" of solve)
OpRec(op, e, flag) == [op |-> op, e |-> e, flag |-> flag]

\* a backend call without arguments of interest
Plain(fn) == Call(fn, NoHandle, <<>>, <<>>, FALSE, 0, FALSE, 0, "int")

\* get_variables(expr) (cpmpy/transformations/get_variables.py): the variables
\* of an expression, a NegBoolView counted as its base variable
RECURSIVE get_variables(_)
get_variables(e) ==
    IF e.k \in {"var", "neg"} THEN {e.name}
    ELSE UNION {get_variables(e.args[i]) : i \in DOMAIN e.args}

---------------------------------------------------------------------------
(* The session: every field an operation of CPM_exact reads or writes.      *)
(* s.c is the compile context (varmap, declared variables, posted          *)
(* constraints, the calls made by the running operation, the exception).   *)

Ctx == [varmap |-> varmap, xct_vars |-> xct_vars, xct_cons |-> xct_cons,
        calls |-> <<>>, err |-> NoErr]

Sess == [c |-> Ctx, has_objective |-> has_objective,
         objective_minimize |-> objective_minimize, user_vars |-> user_vars,
         value |-> value, objective_value |-> objective_value,
         exitstatus |-> exitstatus, xct_obj |-> xct_obj,
         xct_timeout |-> xct_timeout, xct_has_sol |-> xct_has_sol,
         xct_sol |-> xct_sol, xct_ub |-> xct_ub, xct_blocked |-> xct_blocked,
         ret |-> FALSE]

\* a backend call that is neither a declaration nor a constraint
Log(s, call) == [s EXCEPT !.c.calls = @ \o <<call>>]

---------------------------------------------------------------------------
(* CPM_exact.getSolAndObj *)

\* an enumeration of a set of names: the order a Python loop visits them in
RECURSIVE SeqOf(_)
SeqOf(S) == IF S = {} THEN <<>>
            ELSE LET v == CHOOSE v \in S : TRUE IN <<v>> \o SeqOf(S \ {v})

\* [self.solver_var(cpm_var) for cpm_var in self.user_vars], from variable i on
RECURSIVE HandlesLoop(_, _, _)
HandlesLoop(c, vs, i) ==
    IF i > Len(vs) \/ c.err # NoErr THEN c
    ELSE HandlesLoop(xct_solver_var(c, Var(vs[i])).c, vs, i + 1)

\* FilledValues without the bool() of line 101
FilledValuesRaw(s) ==
    [v \in DOMAIN s.value |->
        IF v \in s.user_vars THEN IntVal(s.xct_sol[v]) ELSE s.value[v]]

\* the variable values after the loop of lines 97-102
FilledValues(s) ==
    [v \in DOMAIN s.value |->
        IF v \in s.user_vars
        THEN IF v \in BoolVars THEN BoolVal(s.xct_sol[v]) ELSE IntVal(s.xct_sol[v])
        ELSE s.value[v]]

\* the objective value after lines 105-107
TranslatedObjective(s) ==
    IF s.objective_minimize THEN IntVal(s.xct_ub) ELSE IntVal(-s.xct_ub)

\* getSolAndObj clearing the variables when the backend has no solution, as
\* CPM_z3.solve does
\* lines 96-109, c1 being the context after the handles have been collected
Extract(s, c1) ==
    IF c1.err # NoErr THEN [s EXCEPT !.c = c1]
    ELSE [s EXCEPT !.c = [c1 EXCEPT !.calls = @ \o <<Plain("getLastSolutionFor"),
                                                    Plain("getObjectiveBounds")>>],
                   !.value = FilledValues(s),
                   !.objective_value = TranslatedObjective(s),
                   !.ret = TRUE]

GetSolAndObjClearing(s) ==
    IF s.c.err # NoErr THEN s
    ELSE IF ~s.xct_has_sol
    THEN [Log(s, Plain("hasSolution")) EXCEPT
             !.objective_value = NoneVal, !.ret = FALSE,
             !.value = [v \in DOMAIN @ |-> IF v \in s.user_vars THEN NoneVal ELSE @[v]]]
    ELSE Extract(s, HandlesLoop(Log(s, Plain("hasSolution")).c, SeqOf(s.user_vars), 1))

getSolAndObj(s) ==
    IF s.c.err # NoErr THEN s
    ELSE IF ~s.xct_has_sol
    THEN [Log(s, Plain("hasSolution")) EXCEPT !.objective_value = NoneVal, !.ret = FALSE]
    ELSE Extract(s, HandlesLoop(Log(s, Plain("hasSolution")).c, SeqOf(s.user_vars), 1))

---------------------------------------------------------------------------
(* CPM_exact.objective *)

\* xct_solver.init(coefs, vars), made in context c
InitCall(s, c, init) ==
    [s EXCEPT !.c = [c EXCEPT !.calls = @ \o <<init>>], !.xct_obj = @ \o <<init>>]

\* InitObjective without the sign flip of lines 279-280 for maximize
InitObjectiveNoFlip(s, m) ==
    IF m.c.err # NoErr THEN [s EXCEPT !.c = m.c]
    ELSE InitCall(s, m.c, Call("init", NoHandle, m.coefs, m.vars, FALSE, 0, FALSE, 0, "int"))

\* lines 279-282: post the numeric expression m as the objective
InitObjective(s, m) ==
    IF m.c.err # NoErr THEN [s EXCEPT !.c = m.c]
    ELSE InitCall(s, m.c, Call("init", NoHandle,
                               IF s.objective_minimize THEN m.coefs ELSE NegSeq(m.coefs),
                               m.vars, FALSE, 0, FALSE, 0, "int"))

\* lines 277-282
PostObjective(s, e) == InitObjective(s, make_numexpr(s.c, e, Num(0)))

\* lines 269-282, after the assertion
SetObjective(s, e, minimize) ==
    PostObjective([s EXCEPT !.has_objective = TRUE, !.objective_minimize = minimize,
                            !.user_vars = @ \cup get_variables(e)], e)

\* objective() without the assertion of line 268
ObjectiveUnchecked(s, e, minimize) == SetObjective(s, e, minimize)

objective(s, e, minimize) ==
    IF s.has_objective THEN [s EXCEPT !.c = Raise(s.c, "AssertionError")]
    ELSE SetObjective(s, e, minimize)

---------------------------------------------------------------------------
(* CPM_exact.__add__ for one primitive constraint *)

\* linearize_constraint (cpmpy/transformations/linearize.py) on the constraints
\* posted here: a disjunction becomes sum(args) >= 1; comparisons and
\* indicator constraints, already primitive, are kept as they are
linearize_constraint(con) ==
    IF con.k = "op" /\ con.name = "or"
    THEN Cmp(">=", Op("sum", con.args), Num(1))
    ELSE con

\* the arguments that are negated views
Negated(as) == {i \in DOMAIN as : as[i].k = "neg"}

\* only_positive_bv: in a sum compared with a constant every negated view
\* ~v is replaced by 1 - v, which gives a wsum over the variables themselves
only_positive_bv(con) ==
    IF /\ con.k = "cmp" /\ is_num(con.args[2])
       /\ con.args[1].k = "op" /\ con.args[1].name = "sum"
       /\ Negated(con.args[1].args) # {}
    THEN Cmp(con.name,
             Wsum([i \in DOMAIN con.args[1].args |->
                      IF i \in Negated(con.args[1].args) THEN -1 ELSE 1],
                  [i \in DOMAIN con.args[1].args |->
                      IF i \in Negated(con.args[1].args) THEN Var(con.args[1].args[i].name)
                      ELSE con.args[1].args[i]]),
             Num(con.args[2].val - Cardinality(Negated(con.args[1].args))))
    ELSE con

add(s, con) ==
    [s EXCEPT !.user_vars = @ \cup get_variables(con),
              !.c = post_constraint(@, only_positive_bv(linearize_constraint(con)))]

---------------------------------------------------------------------------
(* CPM_exact.solve, assumptions=None and no keyword arguments.  out is what *)
(* the backend's search does: the raw status it returns and the solution   *)
(* state it is left in.                                                    *)

Outcome(raw, has_sol, sol, ub) == [raw |-> raw, has_sol |-> has_sol, sol |-> sol, ub |-> ub]

EmptyInit == Call("init", NoHandle, <<>>, <<>>, FALSE, 0, FALSE, 0, "int")

\* lines 126-128 (and 189-191 of solveAll)
EnsureInit(s) ==
    IF s.has_objective THEN s
    ELSE [Log(s, EmptyInit) EXCEPT !.has_objective = TRUE, !.xct_obj = @ \o <<EmptyInit>>]

\* lines 131-132 (and 196-197 of solveAll)
SetTimeLimit(s, time_limit) ==
    IF time_limit THEN [Log(s, Plain("setOption")) EXCEPT !.xct_timeout = TRUE]
    ELSE s

\* the backend after a search call fn that ended as out
Ran(s, fn, out) ==
    [Log(s, Plain(fn)) EXCEPT !.xct_has_sol = out.has_sol, !.xct_sol = out.sol,
                              !.xct_ub = out.ub]

\* TranslateStatus with every status other than 0 taken as a timeout
TranslateStatusLenient(s, my_status) ==
    IF my_status = 0
    THEN [s EXCEPT !.exitstatus = IF s.xct_has_sol THEN "OPTIMAL" ELSE "UNSATISFIABLE"]
    ELSE [s EXCEPT !.exitstatus = "UNKNOWN"]

\* lines 156-168: a fresh SolverStatus (NOT_RUN), then the translation
TranslateStatus(s, my_status) ==
    IF my_status = 0
    THEN [s EXCEPT !.exitstatus = IF s.xct_has_sol THEN "OPTIMAL" ELSE "UNSATISFIABLE"]
    ELSE IF my_status = 2 THEN [s EXCEPT !.exitstatus = "UNKNOWN"]
    ELSE [s EXCEPT !.exitstatus = "NOT_RUN", !.c = Raise(s.c, "NotImplementedError")]

\* lines 139-141: print("TODO: implement assumptions"); assert(False)
Assumed(s) == [s EXCEPT !.c = Raise(s.c, "AssertionError")]

\* solve(time_limit, assumptions) without keyword arguments; assumptions is
\* TRUE when the argument is not None
solve(s, time_limit, assumptions, out) ==
    IF assumptions THEN Assumed(SetTimeLimit(EnsureInit(s), time_limit))
    ELSE getSolAndObj(TranslateStatus(Ran(SetTimeLimit(EnsureInit(s), time_limit),
                                          "runFull", out),
                                      out.raw))

\* lines 499-501
get_core(s) == [s EXCEPT !.c = Raise(s.c, "NotImplementedError")]

---------------------------------------------------------------------------
(* CPM_exact.solveAll, display=None and no keyword arguments: the code      *)
(* before the loop, and the body of the loop for one call of runOnce.       *)

\* lines 189-197
solveAllBegin(s, time_limit) ==
    SetTimeLimit(Log(EnsureInit(s), Plain("setOption")), time_limit)

\* xct_solver.invalidateLastSol()
InvalidateLastSol(s) ==
    IF s.c.err # NoErr THEN s
    ELSE [Log(s, Plain("invalidateLastSol")) EXCEPT !.xct_blocked = @ \cup {s.xct_sol}]

\* SolveAllSat without the invalidateLastSol() of line 218
SolveAllSatKeeping(s) == getSolAndObj(s)

\* lines 216-218: the SAT branch after the count
SolveAllSat(s) == InvalidateLastSol(getSolAndObj(s))

\* solution_limit=None
NoLimit == -1

\* runOnce was not called yet
NoStatus == -1

\* line 206: the test of the outer loop
\* SolveAllContinues when the limit is not looked at
SolveAllContinuesUnlimited(limit, found) == limit = NoLimit \/ found < limit \/ found >= limit

\* SolveAllContinues with the limit itself still allowed
SolveAllContinuesInclusive(limit, found) == limit = NoLimit \/ found <= limit

SolveAllContinues(limit, found) == limit = NoLimit \/ found < limit

---------------------------------------------------------------------------
(* CPM_z3.solver_var and CPM_z3.solve.  A z3 session uses the fields of    *)
(* SolverInterface, the assertions of its z3.Solver and the model of the   *)
(* last check.                                                             *)

\* a z3 expression: the function applied and its arguments, the handle of a
\* variable, the value of a number
ZX(fn, as, h, n) == [z3 |-> fn, args |-> as, h |-> h, n |-> n]

\* Python's None where a z3 expression is expected
ZNone == ZX("None", <<>>, NoHandle, 0)

ZSess == [user_vars |-> user_vars, varmap |-> varmap, value |-> value,
          objective_value |-> objective_value, exitstatus |-> exitstatus,
          z3_cons |-> z3_cons, z3_model |-> z3_model, calls |-> <<>>,
          err |-> NoErr, ret |-> FALSE, h |-> NoHandle, n |-> 0, x |-> ZNone]

\* z3.Not(h)
Z3Not(h) == [h EXCEPT !.not = ~h.not]

\* the assertion revar >= lb or revar <= ub
Z3Bound(v, op, bound) == Call("add", Handle(v), <<>>, <<>>, op = ">=", bound, op = "<=", bound, "int")

\* lines 170-184 for a variable that is no NegBoolView
z3_solver_var_base(z, e) ==
    IF e.name \in DOMAIN z.varmap THEN [z EXCEPT !.h = z.varmap[e.name]]
    ELSE LET z1 == [z EXCEPT !.user_vars = @ \cup {e.name}]
         IN IF IsBoolVarImpl(e)
            THEN [z1 EXCEPT !.varmap = (e.name :> Handle(e.name)) @@ @,
                            !.h = Handle(e.name)]
            ELSE IF IsIntVarImpl(e)
            THEN LET lo == Z3Bound(e.name, ">=", VarLb(e.name))
                     hi == Z3Bound(e.name, "<=", VarUb(e.name))
                 IN [z1 EXCEPT !.varmap = (e.name :> Handle(e.name)) @@ @,
                               !.z3_cons = @ \cup {lo, hi},
                               !.calls = @ \o <<lo, hi>>,
                               !.h = Handle(e.name)]
            ELSE [z1 EXCEPT !.err = "NotImplementedError"]

\* CPM_z3.solver_var of a number, a variable or a NegBoolView
z3_solver_var(z, e) ==
    IF z.err # NoErr THEN z
    ELSE IF is_num(e) THEN [z EXCEPT !.n = e.val]
    ELSE IF IsNegBoolView(e)
    THEN LET r == z3_solver_var_base(z, Var(e.name))
         IN IF r.err # NoErr THEN r ELSE [r EXCEPT !.h = Z3Not(r.h)]
    ELSE z3_solver_var_base(z, e)

---------------------------------------------------------------------------
(* CPM_z3.__add__ and CPM_z3._z3_expr.  z.x is the z3 expression that the   *)
(* last translation returned.                                               *)

\* what solver_var returned for e, as a z3 expression
Z3Leaf(z, e) ==
    IF z.err # NoErr THEN z
    ELSE [z EXCEPT !.x = IF is_num(e) THEN ZX("num", <<>>, NoHandle, z.n)
                         ELSE ZX("var", <<>>, z.h, 0)]

\* self.solver_vars(es): solver_var of every element, from element i on; xs
\* are the results so far
RECURSIVE z3_solver_vars(_, _, _, _)
Z3VarsNext(z1, es, i, xs) == z3_solver_vars(z1, es, i + 1, Append(xs, z1.x))
z3_solver_vars(z, es, i, xs) ==
    IF z.err # NoErr THEN z
    ELSE IF i > Len(es) THEN [z EXCEPT !.x = ZX("list", xs, NoHandle, 0)]
    ELSE Z3VarsNext(Z3Leaf(z3_solver_var(z, es[i]), es[i]), es, i, xs)

\* lines 260-265: z3.Sum of the variables, for wsum of the products wi*xi
Z3Sum(z, e) ==
    IF z.err # NoErr THEN z
    ELSE IF e.name = "sum" THEN [z EXCEPT !.x = ZX("Sum", z.x.args, NoHandle, 0)]
    ELSE [z EXCEPT !.x = ZX("Sum", [i \in 1 .. Min2(Len(e.ws), Len(z.x.args)) |->
                                      ZX("*", <<ZX("num", <<>>, NoHandle, e.ws[i]), z.x.args[i]>>,
                                         NoHandle, 0)],
                            NoHandle, 0)]

\* Z3Unsupported if the function ended without a return statement
Z3ReturnsNone(z) == [z EXCEPT !.x = ZNone]

\* line 300: raise NotImplementedError("Z3: constraint not (yet) supported")
Z3Unsupported(z) == [z EXCEPT !.err = "NotImplementedError"]

\* the comparisons of lines 274-285
Z3Comparisons == {"<=", "<", ">=", ">", "!=", "=="}

\* the nodes whose arguments _z3_expr translates with _z3_expr: a list (line
\* 244), and/or/xor/-> (lines 252-259), every Comparison (lines 269-270) and
\* alldifferent (lines 295-296)
ArgsTranslated(e) ==
    \/ e.k = "list"
    \/ e.k = "op" /\ e.name \in {"and", "or", "xor", "->"}
    \/ e.k = "cmp"
    \/ e.k = "glob" /\ e.name = "alldifferent"

\* the z3 function applied to the translated arguments
Z3Fn(e) ==
    CASE e.k = "list" -> "list"
      [] e.k = "glob" -> "Distinct"
      [] e.k = "cmp" -> e.name
      [] e.name = "and" -> "And"
      [] e.name = "or" -> "Or"
      [] e.name = "xor" -> "Xor"
      [] OTHER -> "Implies"

\* what _z3_expr returns once the arguments of e are translated: a
\* Comparison with another name leaves its if-chain and reaches line 300
Z3Build(z, e) ==
    IF z.err # NoErr THEN z
    ELSE IF e.k = "cmp" /\ e.name \notin Z3Comparisons THEN Z3Unsupported(z)
    ELSE [z EXCEPT !.x = ZX(Z3Fn(e), z.x.args, NoHandle, 0)]

RECURSIVE z3_expr(_, _)
RECURSIVE z3_exprs(_, _, _, _)

\* [self._z3_expr(con) for con in es], from element i on (the two arguments
\* of a Comparison are translated in the same order)
Z3ExprsNext(z1, es, i, xs) == z3_exprs(z1, es, i + 1, Append(xs, z1.x))
z3_exprs(z, es, i, xs) ==
    IF z.err # NoErr THEN z
    ELSE IF i > Len(es) THEN [z EXCEPT !.x = ZX("list", xs, NoHandle, 0)]
    ELSE Z3ExprsNext(z3_expr(z, es[i]), es, i, xs)

\* lines 241-300; an Operator with a name that is not listed leaves its
\* if-chain and reaches line 300, as does every other node
z3_expr(z, e) ==
    IF z.err # NoErr THEN z
    ELSE IF is_num(e) THEN [z EXCEPT !.x = ZX("num", <<>>, NoHandle, e.val)]
    ELSE IF IsNumVarImpl(e) THEN Z3Leaf(z3_solver_var(z, e), e)
    ELSE IF e.k = "op" /\ e.name \in {"sum", "wsum"}
    THEN Z3Sum(z3_solver_vars(z, e.args, 1, <<>>), e)
    ELSE IF ArgsTranslated(e) THEN Z3Build(z3_exprs(z, e.args, 1, <<>>), e)
    ELSE Z3Unsupported(z)

\* line 231: self.z3_solver.add(...)
Z3Post(z) ==
    IF z.err # NoErr THEN z
    ELSE [z EXCEPT !.z3_cons = @ \cup {z.x}, !.calls = @ \o <<Plain("add")>>]

\* lines 204-231: a list is posted element by element
RECURSIVE z3_add(_, _)
RECURSIVE Z3AddLoop(_, _, _)
Z3AddLoop(z, es, i) ==
    IF z.err # NoErr \/ i > Len(es) THEN z
    ELSE Z3AddLoop(z3_add(z, es[i]), es, i + 1)
z3_add(z, con) ==
    IF con.k = "list" THEN Z3AddLoop(z, con.args, 1)
    ELSE Z3Post(z3_expr(z, con))

\* the loop of lines 139-141, from variable i on
RECURSIVE Z3ValuesLoop(_, _, _)
Z3ValuesLoop(z, vs, i) ==
    IF i > Len(vs) \/ z.err # NoErr THEN z
    ELSE LET r == z3_solver_var(z, Var(vs[i]))
         IN IF r.err # NoErr THEN r
            ELSE Z3ValuesLoop([r EXCEPT !.value[vs[i]] = [t |-> "z3", n |-> r.z3_model[r.h.name]]],
                              vs, i + 1)

\* _solve_return (cpmpy/solvers/solver_interface.py): is there a solution
SolveReturn(status) == status \in {"OPTIMAL", "FEASIBLE"}

\* CPM_z3.solve; my_status is repr(z3_solver.check()), model the model of a sat check
z3_solve(z, time_limit, my_status, model) ==
    LET z0 == IF time_limit THEN [z EXCEPT !.calls = @ \o <<Plain("set")>>] ELSE z
        z1 == [z0 EXCEPT !.calls = @ \o <<Plain("check")>>,
                         !.z3_model = IF my_status = "sat" THEN model ELSE @]
        z2 == IF my_status = "sat" THEN [z1 EXCEPT !.exitstatus = "FEASIBLE"]
              ELSE IF my_status = "unsat" THEN [z1 EXCEPT !.exitstatus = "UNSATISFIABLE"]
              ELSE IF my_status = "unknown" THEN [z1 EXCEPT !.exitstatus = "UNKNOWN"]
              ELSE [z1 EXCEPT !.exitstatus = "NOT_RUN", !.err = "NotImplementedError"]
        has_sol == SolveReturn(z2.exitstatus)
        z3 == [z2 EXCEPT !.objective_value = NoneVal, !.ret = has_sol]
    IN IF z2.err # NoErr THEN z2
       ELSE IF has_sol THEN Z3ValuesLoop(z3, SeqOf(z3.user_vars), 1)
       ELSE [z3 EXCEPT !.value = [v \in DOMAIN @ |->
                                     IF v \in z3.user_vars THEN NoneVal ELSE @[v]]]

---------------------------------------------------------------------------
(* The meaning of the flat backend's primitives (the Exact library) and of *)
(* CPMpy expressions, over an assignment A of integers to variable names.  *)

RECURSIVE Dot(_, _, _)
\* sum(coefs[i] * A[vars[i]])
Dot(coefs, xvars, A) ==
    IF coefs = <<>> THEN 0
    ELSE coefs[1] * A[xvars[1].name] + Dot(Tail(coefs), Tail(xvars), A)

\* does A satisfy a posted constraint
SatCall(call, A) ==
    LET d == Dot(call.coefs, call.vars, A)
    IN CASE call.fn = "addConstraint" ->
              (call.uselb => d >= call.lb) /\ (call.useub => d <= call.ub)
         [] call.fn = "addRightReification" -> (A[call.head.name] = 1 => d >= call.lb)
         [] call.fn = "addLeftReification" -> (d >= call.lb => A[call.head.name] = 1)
         [] OTHER -> TRUE

RECURSIVE EvalNum(_, _)
\* the value of a numeric expression
EvalNum(e, A) ==
    CASE e.k = "num" -> e.val
      [] e.k = "var" -> A[e.name]
      [] e.k = "neg" -> 1 - A[e.name]
      [] e.k = "op" /\ e.name = "sum" ->
            IF e.args = <<>> THEN 0
            ELSE EvalNum(e.args[1], A) + EvalNum(Op("sum", Tail(e.args)), A)
      [] e.k = "op" /\ e.name = "wsum" ->
            IF e.args = <<>> THEN 0
            ELSE e.ws[1] * EvalNum(e.args[1], A)
                 + EvalNum(Wsum(Tail(e.ws), Tail(e.args)), A)
      [] e.k = "op" /\ e.name = "sub" -> EvalNum(e.args[1], A) - EvalNum(e.args[2], A)
      [] OTHER -> 0

\* the truth of a comparison
EvalCmp(e, A) ==
    LET l == EvalNum(e.args[1], A)
        r == EvalNum(e.args[2], A)
    IN CASE e.name = "<=" -> l <= r
         [] e.name = ">=" -> l >= r
         [] e.name = "==" -> l = r
         [] e.name = "<" -> l < r
         [] e.name = ">" -> l > r
         [] OTHER -> l # r

\* the truth of a primitive constraint: a comparison or cond -> comparison
EvalCon(e, A) ==
    IF e.k = "cmp" THEN EvalCmp(e, A)
    ELSE (EvalNum(e.args[1], A) = 1) => EvalCmp(e.args[2], A)

\* the assignments of the variables in vs within their declared domains
Assignments(vs) == {A \in [vs -> 0..DomUb] : \A v \in vs : VarLb(v) <= A[v] /\ A[v] <= VarUb(v)}

\* the objective the backend minimizes, evaluated at A (0 before any init)
ObjOf(obj, A) == IF obj = <<>> THEN 0
                 ELSE Dot(obj[Len(obj)].coefs, obj[Len(obj)].vars, A)

\* the assignments the backend can still return: they satisfy every posted
\* constraint and have not been invalidated
Feasible(s) ==
    {A \in Assignments(DOMAIN s.xct_sol) :
        /\ A \notin s.xct_blocked
        /\ \A con \in s.c.xct_cons : SatCall(con, A)}

\* what a call of runOnce may do: stop in process (3) or, with a timeout set,
\* on the timeout (2), leaving the solution state as it is; find a solution
\* that is still feasible (1); report that none is left (0)
RunOnceOutcome(s) ==
    {Outcome(3, s.xct_has_sol, s.xct_sol, s.xct_ub)}
    \cup (IF s.xct_timeout THEN {Outcome(2, s.xct_has_sol, s.xct_sol, s.xct_ub)} ELSE {})
    \cup {Outcome(1, TRUE, A, ObjOf(s.xct_obj, A)) : A \in Feasible(s)}
    \cup (IF Feasible(s) = {} THEN {Outcome(0, s.xct_has_sol, s.xct_sol, s.xct_ub)} ELSE {})

\* the feasible assignments with the least objective
Optimal(s) == {A \in Feasible(s) : \A B \in Feasible(s) : ObjOf(s.xct_obj, A) <= ObjOf(s.xct_obj, B)}

\* what a call of runFull without time limit does: the search is exhausted
\* (0), and the backend has an optimal solution unless there is none
RunFullOutcome(s) ==
    IF Feasible(s) = {} THEN {Outcome(0, FALSE, s.xct_sol, s.xct_ub)}
    ELSE {Outcome(0, TRUE, A, ObjOf(s.xct_obj, A)) : A \in Optimal(s)}

---------------------------------------------------------------------------
(* The one-hot integer encoder intvar_to_boolvar                            *)
(* (cpmpy/transformations/to_bool.py) and its decoder extract_solution      *)
(* (tests/test_int2bool.py).  A Boolean variable made by boolvar() is the   *)
(* number of its creation; an ivarmap is the sequence of its entries in     *)
(* insertion order.                                                         *)

\* intvar(lb, ub, name=name) and boolvar(name=name)
IntVarOf(name, lb, ub) == [kind |-> "int", name |-> name, lb |-> lb, ub |-> ub]
BoolVarOf(name) == [kind |-> "bool", name |-> name, lb |-> 0, ub |-> 1]

\* DictEntry with range(lb, ub) for the values
DictEntryShort(v, first) ==
    [iv |-> v.name, kind |-> "dict", map |-> [k \in v.lb .. v.ub - 1 |-> first + (k - v.lb)]]

\* ivarmap[v] of an integer variable: value -> Boolean, the Booleans created
\* one after the other from number first on
DictEntry(v, first) ==
    [iv |-> v.name, kind |-> "dict", map |-> [k \in v.lb .. v.ub |-> first + (k - v.lb)]]

\* ivarmap[v] of a Boolean variable: the variable itself
SelfEntry(v) == [iv |-> v.name, kind |-> "self", map |-> << >>]

\* the constraint sum(bvs) == 1
ExactlyOne(bvs) == [k |-> "exactly_one", bvs |-> bvs]

\* the number of values of the domain of v
DomSize(v) == v.ub - v.lb + 1

\* the encoding of one variable added to the encoding enc
EncodeOne(enc, v) ==
    IF v.kind = "bool" THEN [enc EXCEPT !.ivarmap = @ \o <<SelfEntry(v)>>]
    ELSE [enc EXCEPT !.ivarmap = @ \o <<DictEntry(v, enc.count + 1)>>,
                     !.cons = @ \cup {ExactlyOne(enc.count + 1 .. enc.count + DomSize(v))},
                     !.count = @ + DomSize(v)]

\* the elements of an array of variables, from element i on
RECURSIVE EncodeLoop(_, _, _)
EncodeLoop(enc, vs, i) ==
    IF i > Len(vs) THEN enc ELSE EncodeLoop(EncodeOne(enc, vs[i]), vs, i + 1)

\* intvar_to_boolvar(vs) when count Booleans exist: the ivarmap, the
\* constraints, and the number of Booleans afterwards
intvar_to_boolvar(vs, count) ==
    EncodeLoop([ivarmap |-> <<>>, cons |-> {}, count |-> count], vs, 1)

\* "if bv.value()": None and False are falsy
Truthy(val) == val.t = "bool" /\ val.n = 1

\* the values of an entry whose Boolean is true
TrueValues(entry, bvv) == {k \in DOMAIN entry.map : Truthy(bvv[entry.map[k]])}

\* ExtractOne without the assertion of line 173
ExtractOneUnchecked(r, entry, bvv) ==
    IF entry.kind # "dict" THEN [r EXCEPT !.err = "AttributeError"]
    ELSE [r EXCEPT !.sol = @ \cup {<<entry.iv, k>> : k \in TrueValues(entry, bvv)}]

\* lines 172-176: one pass of the loop of extract_solution; the ivarmap value
\* of a Boolean variable is the variable, which has no items()
ExtractOne(r, entry, bvv) ==
    IF entry.kind # "dict" THEN [r EXCEPT !.err = "AttributeError"]
    ELSE IF Cardinality(TrueValues(entry, bvv)) # 1 THEN [r EXCEPT !.err = "AssertionError"]
    ELSE [r EXCEPT !.sol = @ \cup {<<entry.iv, k>> : k \in TrueValues(entry, bvv)}]

\* the loop of line 171, from entry i on
RECURSIVE ExtractLoop(_, _, _, _)
ExtractLoop(r, im, bvv, i) ==
    IF i > Len(im) \/ r.err # NoErr THEN r
    ELSE ExtractLoop(ExtractOne(r, im[i], bvv), im, bvv, i + 1)

\* extract_solution(ivarmap): the set sol, or the exception raised
extract_solution(im, bvv) == ExtractLoop([sol |-> {}, err |-> NoErr], im, bvv, 1)

---------------------------------------------------------------------------
(* Operations on a session *)

\* write the session record back to the state
Commit(s) ==
    /\ has_objective' = s.has_objective
    /\ objective_minimize' = s.objective_minimize
    /\ user_vars' = s.user_vars
    /\ varmap' = s.c.varmap
    /\ value' = s.value
    /\ objective_value' = s.objective_value
    /\ exitstatus' = s.exitstatus
    /\ xct_vars' = s.c.xct_vars
    /\ xct_cons' = s.c.xct_cons
    /\ xct_obj' = s.xct_obj
    /\ xct_timeout' = s.xct_timeout
    /\ xct_has_sol' = s.xct_has_sol
    /\ xct_sol' = s.xct_sol
    /\ xct_ub' = s.xct_ub
    /\ xct_blocked' = s.xct_blocked
    /\ calls' = s.c.calls
    /\ UNCHANGED <<backend, z3_cons, z3_model, encvars, numexpr>>

\* write a z3 session record back to the state
CommitZ(z) ==
    /\ user_vars' = z.user_vars
    /\ varmap' = z.varmap
    /\ value' = z.value
    /\ objective_value' = z.objective_value
    /\ exitstatus' = z.exitstatus
    /\ z3_cons' = z.z3_cons
    /\ z3_model' = z.z3_model
    /\ calls' = z.calls
    /\ UNCHANGED <<backend, has_objective, objective_minimize, xct_vars, xct_cons,
                   xct_obj, xct_timeout, xct_has_sol, xct_sol, xct_ub, xct_blocked,
                   encvars, numexpr>>

Idle == pc = "idle" /\ UNCHANGED <<pc, solsfound, solution_limit, xct_status, xct_found>>

\* s += con
XAdd(con) ==
    /\ backend = "exact" /\ Idle
    /\ LET s == add(Sess, con)
       IN Commit(s) /\ ret' = Ret(s.c.err, FALSE, 0, NoHandle)
    /\ lastOp' = OpRec("add", con, FALSE)

\* s.objective(e, minimize)
XObjective(e, minimize) ==
    /\ backend = "exact" /\ Idle
    /\ LET s == objective(Sess, e, minimize)
       IN Commit(s) /\ ret' = Ret(s.c.err, FALSE, 0, NoHandle)
    /\ lastOp' = OpRec("objective", e, minimize)

\* s.solver_var(e)
XSolverVar(e) ==
    /\ backend = "exact" /\ Idle
    /\ LET r == xct_solver_var(Ctx, e)
       IN Commit([Sess EXCEPT !.c = r.c]) /\ ret' = Ret(r.c.err, FALSE, 0, r.h)
    /\ lastOp' = OpRec("solver_var", e, FALSE)

\* the session after _make_numexpr ended as m: solver_var has declared and
\* cached the variables it met
MadeNumexpr(m) ==
    /\ varmap' = m.c.varmap
    /\ xct_vars' = m.c.xct_vars
    /\ xct_cons' = m.c.xct_cons
    /\ calls' = m.c.calls
    /\ numexpr' = ReturnedTuple(m)
    /\ ret' = Ret(m.c.err, FALSE, 0, NoHandle)

\* s._make_numexpr(lhs, rhs)
XMakeNumexpr(lhs, rhs) ==
    /\ backend = "exact" /\ Idle
    /\ MadeNumexpr(make_numexpr(Ctx, lhs, rhs))
    /\ lastOp' = OpRec("_make_numexpr", List(<<lhs, rhs>>), FALSE)
    /\ UNCHANGED <<backend, has_objective, objective_minimize, user_vars, value,
                   objective_value, exitstatus, xct_obj, xct_timeout, xct_has_sol,
                   xct_sol, xct_ub, xct_blocked, z3_cons, z3_model, encvars>>

\* s.getSolAndObj()
XGetSolAndObj ==
    /\ backend = "exact" /\ Idle
    /\ LET s == getSolAndObj(Sess)
       IN Commit(s) /\ ret' = Ret(s.c.err, s.ret, 0, NoHandle)
    /\ lastOp' = OpRec("getSolAndObj", Num(0), FALSE)

\* what a search of the backend may do when nothing is assumed about the
\* backend but its interface: it ends with raw status 0 (done) or 2 (timeout,
\* only when a timeout is set), having a new solution, the solution state it
\* had, or no solution; or it returns one of the other raw statuses, 1 and 3
AnyOutcome(s) ==
    LET ends == IF s.xct_timeout THEN {0, 2} ELSE {0}
    IN {Outcome(r, TRUE, A, ObjOf(s.xct_obj, A)) : r \in ends, A \in Assignments(DOMAIN s.xct_sol)}
       \cup {Outcome(r, h, s.xct_sol, s.xct_ub) : r \in ends, h \in {s.xct_has_sol, FALSE}}
       \cup {Outcome(r, s.xct_has_sol, s.xct_sol, s.xct_ub) : r \in {1, 3}}

\* s.solve(time_limit) and s.solve(time_limit, assumptions) when the search
\* ends as one of outs
XSolveWith(time_limit, assumptions, outs) ==
    /\ backend = "exact" /\ Idle
    /\ \E out \in outs :
          LET s == solve(Sess, time_limit, assumptions, out)
          IN Commit(s) /\ ret' = Ret(s.c.err, s.ret, IF assumptions THEN 0 ELSE out.raw, NoHandle)
    /\ lastOp' = OpRec(IF assumptions THEN "solve(assumptions)" ELSE "solve", Num(0), time_limit)

\* solve on a backend of which only the interface is assumed; with
\* assumptions the search is not reached and the backend stays as it is
XSolve(time_limit, assumptions) ==
    XSolveWith(time_limit, assumptions,
               IF assumptions THEN {Outcome(0, xct_has_sol, xct_sol, xct_ub)}
               ELSE AnyOutcome(SetTimeLimit(EnsureInit(Sess), time_limit)))

\* s.solve() on a backend that searches to the end
XSolveFull == XSolveWith(FALSE, FALSE, RunFullOutcome(EnsureInit(Sess)))

\* s.get_core()
XGetCore ==
    /\ backend = "exact" /\ Idle
    /\ Commit(get_core(Sess))
    /\ ret' = Ret("NotImplementedError", FALSE, 0, NoHandle)
    /\ lastOp' = OpRec("get_core", Num(0), FALSE)

\* z3 session: s.solver_var(e)
ZSolverVar(e) ==
    /\ backend = "z3" /\ Idle
    /\ LET z == z3_solver_var(ZSess, e)
       IN CommitZ(z) /\ ret' = Ret(z.err, FALSE, z.n, z.h)
    /\ lastOp' = OpRec("solver_var", e, FALSE)

\* z3 session: s += con
ZAdd(con) ==
    /\ backend = "z3" /\ Idle
    /\ LET z == z3_add(ZSess, con)
       IN CommitZ(z) /\ ret' = Ret(z.err, FALSE, 0, NoHandle)
    /\ lastOp' = OpRec("z3_add", con, FALSE)

\* z3 session: s.solve(time_limit)
ZSolve(time_limit) ==
    /\ backend = "z3" /\ Idle
    /\ \E st \in {"sat", "unsat", "unknown"} :
       \E model \in IF st = "sat" THEN Assignments(DOMAIN z3_model) ELSE {z3_model} :
          LET z == z3_solve(ZSess, time_limit, st, model)
          IN CommitZ(z)
             /\ ret' = Ret(z.err, z.ret, IF st = "unknown" THEN 2 ELSE 0, NoHandle)
    /\ lastOp' = OpRec("solve", Num(0), time_limit)

\* s.solveAll(time_limit=..., solution_limit=limit), up to the loop
XSolveAllBegin(time_limit, limit) ==
    /\ backend = "exact" /\ pc = "idle"
    /\ Commit(solveAllBegin(Sess, time_limit))
    /\ pc' = "solveAll" /\ solsfound' = 0 /\ solution_limit' = limit
    /\ xct_status' = NoStatus /\ xct_found' = 0
    /\ ret' = RetNone
    /\ lastOp' = OpRec("solveAll", Num(0), time_limit)

\* solveAll: the loop test of line 206 fails, line 220 returns solsfound
XSolveAllLimit ==
    /\ pc = "solveAll" /\ ~SolveAllContinues(solution_limit, solsfound)
    /\ Commit(Sess)
    /\ pc' = "idle" /\ ret' = Ret(NoErr, FALSE, solsfound, NoHandle)
    /\ UNCHANGED <<solsfound, solution_limit, lastOp, xct_status, xct_found>>

\* solveAll: one call of runOnce (line 210), which ends as one of outs, and
\* what lines 208-218 do with its status: call again (3), return (0), count
\* and invalidate (1), or fail the assertion of line 211
XRunOnceWith(outs) ==
    /\ pc = "solveAll" /\ SolveAllContinues(solution_limit, solsfound)
    /\ solsfound < MaxSols
    /\ \E out \in outs :
          /\ xct_status' = out.raw
          /\ xct_found' = IF out.raw = 1 THEN xct_found + 1 ELSE xct_found
          /\ LET s1 == Ran(Sess, "runOnce", out)
                 s2 == SolveAllSat(s1)
                 failed == [s1 EXCEPT !.c = Raise(s1.c, "AssertionError")]
             IN CASE out.raw = 3 ->
                       Commit(s1) /\ UNCHANGED <<pc, solsfound, ret>>
                  [] out.raw = 0 ->
                       /\ Commit(s1) /\ pc' = "idle" /\ UNCHANGED solsfound
                       /\ ret' = Ret(NoErr, FALSE, solsfound, NoHandle)
                  [] out.raw = 1 ->
                       /\ Commit(s2) /\ solsfound' = solsfound + 1
                       /\ IF s2.c.err = NoErr THEN UNCHANGED <<pc, ret>>
                          ELSE pc' = "idle" /\ ret' = Ret(s2.c.err, FALSE, 0, NoHandle)
                  [] OTHER ->
                       /\ Commit(failed) /\ pc' = "idle" /\ UNCHANGED solsfound
                       /\ ret' = Ret("AssertionError", FALSE, 0, NoHandle)
    /\ UNCHANGED <<solution_limit, lastOp>>

\* runOnce on a backend that finds the solutions of the posted constraints
XRunOnce == XRunOnceWith(RunOnceOutcome(Sess))

\* what a call of runOnce may do on a backend of which only the interface is
\* assumed: any status, and with status 1 any assignment as the solution
AnyRunOnce(s) ==
    {Outcome(r, s.xct_has_sol, s.xct_sol, s.xct_ub) : r \in {0, 2, 3}}
    \cup {Outcome(1, TRUE, A, ObjOf(s.xct_obj, A)) : A \in Assignments(DOMAIN s.xct_sol)}

\* runOnce on a backend of which only the interface is assumed
XRunOnceAny == XRunOnceWith(AnyRunOnce(Sess))

\* the session is left alone by the encoder and the decoder
SessionUntouched ==
    UNCHANGED <<backend, has_objective, objective_minimize, user_vars, varmap, value,
                objective_value, exitstatus, xct_vars, xct_cons, xct_obj, xct_timeout,
                xct_has_sol, xct_sol, xct_ub, xct_blocked, z3_cons, z3_model, calls,
                pc, solsfound, solution_limit, xct_status, xct_found, numexpr>>

\* the Booleans after an encoding: the new ones have no value yet
Encoded(enc) ==
    /\ ivarmap' = enc.ivarmap
    /\ enc_cons' = enc.cons
    /\ bv_count' = enc.count
    /\ bv_value' = [i \in 1 .. enc.count |->
                        IF i \in DOMAIN bv_value THEN bv_value[i] ELSE NoneVal]

\* ivarmap, constraints = intvar_to_boolvar(vs)
XEncode(vs) ==
    /\ intvar_to_boolvar(vs, bv_count).count <= MaxBvs
    /\ Encoded(intvar_to_boolvar(vs, bv_count))
    /\ enc_in' = vs
    /\ ret' = RetNone
    /\ lastOp' = OpRec("intvar_to_boolvar", Num(0), FALSE)
    /\ SessionUntouched /\ UNCHANGED enc_sol

\* a solve of the Boolean model, or anything else that sets the values of the
\* Booleans: every Boolean gets the value vals gives it
XAssign(vals) ==
    /\ bv_count > 0
    /\ bv_value' = [i \in 1 .. bv_count |-> BoolVal(vals[i])]
    /\ ret' = RetNone
    /\ lastOp' = OpRec("assign", Num(0), FALSE)
    /\ SessionUntouched /\ UNCHANGED <<enc_in, ivarmap, enc_cons, bv_count, enc_sol>>

\* what extract_solution returned, or raised
Extracted1(r) ==
    /\ enc_sol' = IF r.err = NoErr THEN r.sol ELSE enc_sol
    /\ ret' = Ret(r.err, FALSE, 0, NoHandle)

\* extract_solution(ivarmap)
XExtractSolution ==
    /\ Extracted1(extract_solution(ivarmap, bv_value))
    /\ lastOp' = OpRec("extract_solution", Num(0), FALSE)
    /\ SessionUntouched /\ UNCHANGED <<enc_in, ivarmap, enc_cons, bv_count, bv_value>>

---------------------------------------------------------------------------
(* The state after construction *)

InitSession(bk, solvars) ==
    /\ backend = bk
    /\ has_objective = FALSE
    /\ objective_minimize = TRUE
    /\ user_vars = {}
    /\ varmap = << >>
    /\ value = [v \in Vars |-> NoneVal]
    /\ objective_value = NoneVal
    /\ exitstatus = "NOT_RUN"
    /\ xct_vars = <<>>
    /\ xct_cons = {}
    /\ xct_obj = <<>>
    /\ xct_timeout = FALSE
    /\ xct_has_sol = FALSE
    /\ xct_sol = [v \in solvars |-> 0]
    /\ xct_ub = 0
    /\ xct_blocked = {}
    /\ z3_cons = {}
    /\ z3_model = [v \in solvars |-> 0]
    /\ calls = <<>>
    /\ lastOp = OpRec("new", Num(0), FALSE)
    /\ ret = RetNone
    /\ pc = "idle"
    /\ solsfound = 0
    /\ solution_limit = NoLimit
    /\ xct_status = NoStatus
    /\ xct_found = 0
    /\ enc_in = <<>>
    /\ ivarmap = <<>>
    /\ enc_cons = {}
    /\ bv_count = 0
    /\ bv_value = <<>>
    /\ enc_sol = {}
    /\ numexpr = NoNumExpr

---------------------------------------------------------------------------
(* Spec: any sequence of operations on one session over a Boolean a and an *)
(* integer n, with a backend of which only the interface is assumed.       *)

SessionVars == {"a", "n"}

SessionCons ==
    { Op("->", <<NegView("a"), Cmp("<=", Var("n"), Num(0))>>) }

SessionObjs ==
    { Op("sum", <<Var("n"), Num(3), Var("a")>>),
      Wsum(<<2, -1>>, <<Var("a"), Var("n")>>),
      Op("sub", <<Var("n"), Var("a")>>),
      Op("mul", <<Var("n"), Var("a")>>) }

SessionVarExprs == {Var("a"), Var("n"), NegView("a")}

Init == \E bk \in {"exact", "z3"} : InitSession(bk, SessionVars)

Next ==
    \/ \E con \in SessionCons : XAdd(con)
    \/ \E e \in SessionObjs, minimize \in BOOLEAN : XObjective(e, minimize)
    \/ \E e \in SessionVarExprs : XSolverVar(e)
    \/ XGetSolAndObj
    \/ \E time_limit \in BOOLEAN : XSolve(time_limit, FALSE)
    \/ \E e \in SessionVarExprs \cup {Num(1)} : ZSolverVar(e)
    \/ \E time_limit \in BOOLEAN : ZSolve(time_limit)

Spec == Init /\ [][Next]_vars

---------------------------------------------------------------------------
(* SpecCompile: one call (a constraint posted, the objective set, a        *)
(* variable materialized) on a freshly constructed session, over a wide    *)
(* range of inputs.                                                       *)

Leaves == {Num(2), Var("x"), Var("y"), Var("a"), NegView("a")}
Pairs == {<<p, q>> : p \in Leaves, q \in Leaves}
Weights == {<<2, -1>>, <<E18 + 1, 1>>, <<-E18, 3>>}

CompileLhs ==
    {Num(3), Var("x"), Var("a"), Var("f"), Op("mul", <<Var("x"), Var("y")>>)}
    \cup {Op("sum", as) : as \in Pairs}
    \cup {Wsum(w, as) : w \in Weights, as \in Pairs}
    \cup {Op("sub", as) : as \in Pairs}

CompileRhs ==
    {Num(0), Num(3), Num(E18), Num(E18 + 1), Num(-(E18 + 1)), Var("y"), Var("b"),
     Op("sum", <<Var("x"), Var("y")>>)}

CompileCmps ==
    {Cmp(nm, l, r) : nm \in {"<=", ">=", "==", "<", "!="}, l \in CompileLhs, r \in CompileRhs}

CompileConds == {Var("a"), NegView("a"), NegView("b"), Var("x"), Num(1)}

CompileCons ==
    CompileCmps
    \cup {Op("->", <<cond, cmp>>) : cond \in CompileConds, cmp \in CompileCmps}
    \cup {Op("->", <<Var("a"), Var("b")>>), Op("or", <<Var("a"), Var("b")>>), Var("a")}

CompileObjs == CompileLhs

CompileVarExprs == {Var(v) : v \in Vars} \cup {NegView(v) : v \in BoolVars} \cup {Num(1)}

\* constraints for the z3 backend: nodes that _z3_expr lists, nodes that it
\* does not, and both inside listed nodes
Z3Listed ==
    {Op(nm, <<Var("a"), NegView("b")>>) : nm \in {"and", "or", "xor", "->"}}
    \cup {Cmp(nm, l, Num(3)) : nm \in Z3Comparisons,
                               l \in {Var("x"), Op("sum", <<Var("x"), Var("y")>>),
                                      Wsum(<<2, -1>>, <<Var("x"), Var("y")>>)}}
    \cup {Glob("alldifferent", <<Var("x"), Var("y")>>), Var("a"), NegView("a"), Num(1),
          Cmp("==", Var("a"), Var("b"))}

Z3Unlisted ==
    {Op(nm, <<Var("x"), Var("y")>>) : nm \in {"mul", "sub", "div", "mod", "pow"}}
    \cup {Op("abs", <<Var("x")>>), Op("-", <<Var("x")>>)}
    \cup {Glob(nm, <<Var("x"), Var("y")>>) : nm \in {"circuit", "min", "max", "element"}}
    \cup {Cmp("=<", Var("x"), Num(3))}

\* comparisons whose left side is a sum or wsum with a compound argument: a
\* sum containing a wsum, a sum of sums, a wsum over a sum
Z3Nested ==
    {Cmp(nm, l, Num(3)) : nm \in {"<=", "=="},
                          l \in {Op("sum", <<Var("x"), Wsum(<<2, -1>>, <<Var("x"), Var("y")>>)>>),
                                 Op("sum", <<Op("sum", <<Var("x"), Var("y")>>),
                                             Op("sum", <<Var("y"), Num(1)>>)>>),
                                 Wsum(<<2, -1>>, <<Op("sum", <<Var("x"), Var("y")>>), Var("y")>>)}}

Z3Cons ==
    Z3Listed \cup Z3Unlisted \cup Z3Nested
    \cup {List(<<Var("a"), u>>) : u \in Z3Unlisted}
    \cup {List(<<l, Var("b")>>) : l \in Z3Listed}
    \cup {Op("and", <<Var("a"), u>>) : u \in Z3Unlisted}
    \cup {Cmp("<=", u, Num(3)) : u \in Z3Unlisted}
    \cup {Op("->", <<Var("a"), l>>) : l \in Z3Listed}

Fresh == lastOp.op = "new"

InitCompile == \E bk \in {"exact", "z3"} : InitSession(bk, {})

NextCompile ==
    \/ Fresh /\ \E con \in CompileCons : XAdd(con)
    \/ Fresh /\ \E e \in CompileObjs, minimize \in BOOLEAN : XObjective(e, minimize)
    \/ Fresh /\ \E e \in CompileVarExprs : XSolverVar(e)
    \/ Fresh /\ \E e \in CompileVarExprs : ZSolverVar(e)
    \/ Fresh /\ \E con \in Z3Cons : ZAdd(con)
    \/ Fresh /\ \E time_limit \in BOOLEAN, assumptions \in BOOLEAN : XSolve(time_limit, assumptions)
    \/ Fresh /\ XGetCore
    \/ Fresh /\ \E lhs \in CompileLhs, rhs \in CompileRhs : XMakeNumexpr(lhs, rhs)

SpecCompile == InitCompile /\ [][NextCompile]_vars

---------------------------------------------------------------------------
(* SpecEnum: constraints over two Booleans a and b posted to a flat-backend *)
(* session and enumerated with solveAll, with a backend that returns the    *)
(* feasible assignments.  An enumeration starts on a session of which no    *)
(* solution has been invalidated.                                           *)

EnumVars == {"a", "b"}

AorB == Op("or", <<Var("a"), Var("b")>>)

EnumCons == {AorB, Cmp("<=", Var("a"), Var("b"))}

\* solution_limit: None, a limit below the number of solutions, one above it
EnumLimits == {NoLimit, 2, 5}

\* no enumeration has invalidated a solution of this session yet
Unenumerated == xct_blocked = {}

InitEnum == InitSession("exact", EnumVars)

NextEnum ==
    \/ \E con \in EnumCons : XAdd(con)
    \/ Unenumerated /\ \E time_limit \in BOOLEAN, limit \in EnumLimits :
                           XSolveAllBegin(time_limit, limit)
    \/ XRunOnce
    \/ XSolveAllLimit

SpecEnum == InitEnum /\ [][NextEnum]_vars

---------------------------------------------------------------------------
(* SpecAll: solveAll with every solution limit on a backend of which only   *)
(* the interface is assumed: runOnce may return any status in any order.    *)

\* solution_limit: None, 0, and the limits up to MaxLimit
MaxLimit == 2
AllLimits == {NoLimit} \cup 0 .. MaxLimit

NextAll ==
    \/ XAdd(AorB)
    \/ \E time_limit \in BOOLEAN, limit \in AllLimits : XSolveAllBegin(time_limit, limit)
    \/ XRunOnceAny
    \/ XSolveAllLimit

SpecAll == InitEnum /\ [][NextAll]_vars

(* SpecAllFair: SpecAll with the progress of the loop of solveAll, which    *)
(* runs without interruption (every enabled step of it is taken), and with  *)
(* the two conditions on the backend under which termination is stated:     *)
(* runOnce does not return 3 forever, and when there is no solution limit   *)
(* it does not avoid returning 0 forever.                                   *)

\* a call of runOnce that leaves the in-progress status
LeavesInProgress == XRunOnceAny /\ xct_status' # 3

\* a call of runOnce, in a solveAll without solution limit, that returns 0
ReportsUnsat == solution_limit = NoLimit /\ XRunOnceAny /\ xct_status' = 0

SpecAllFair ==
    /\ SpecAll
    /\ WF_vars(XRunOnceAny) /\ WF_vars(XSolveAllLimit)
    /\ SF_vars(LeavesInProgress) /\ SF_vars(ReportsUnsat)

---------------------------------------------------------------------------
(* SpecCache: constraints are posted, the objective is set, handles are     *)
(* asked for, and solve and solveAll are called in any order on one session *)
(* of either backend, with negated views in every position that takes one. *)

CacheCons ==
    { Op("->", <<NegView("a"), Cmp(">=", Var("n"), Num(1))>>),
      Cmp("<=", Op("sum", <<Var("n"), NegView("a")>>), Var("f")) }

CacheObjs == {Op("sum", <<NegView("a"), Var("n")>>)}

NextCache ==
    \/ \E con \in CacheCons : XAdd(con)
    \/ \E e \in CacheObjs : XObjective(e, TRUE)
    \/ \E e \in SessionVarExprs : XSolverVar(e)
    \/ XSolveFull
    \/ XSolveAllBegin(FALSE, 1)
    \/ XRunOnce
    \/ XSolveAllLimit
    \/ \E con \in CacheCons : ZAdd(con)
    \/ \E e \in SessionVarExprs : ZSolverVar(e)
    \/ ZSolve(FALSE)

SpecCache == Init /\ [][NextCache]_vars

---------------------------------------------------------------------------
(* SpecClauses: the clauses a or b, ~a or c, ~b or ~c and the unit          *)
(* constraints a = 1, b = 0, c = 0 are posted in any order to one session   *)
(* of the flat backend, which is solved at any time.                        *)

ClauseVars == {"a", "b", "c"}

Clauses == {Op("or", <<Var("a"), Var("b")>>),
            Op("or", <<NegView("a"), Var("c")>>),
            Op("or", <<NegView("b"), NegView("c")>>)}

Forced == {Cmp("==", Var("a"), Num(1)), Cmp("==", Var("b"), Num(0)),
           Cmp("==", Var("c"), Num(0))}

InitClauses == InitSession("exact", ClauseVars)

NextClauses ==
    \/ \E con \in Clauses \cup Forced : XAdd(con)
    \/ XSolveFull

SpecClauses == InitClauses /\ [][NextClauses]_vars

---------------------------------------------------------------------------
(* SpecOneHot: integer variables, arrays of them and a Boolean variable are *)
(* encoded one-hot, the Booleans get any values, and the ivarmap is decoded *)
(* with extract_solution.                                                   *)

EncodeInputs ==
    { <<IntVarOf("iv", EncLb, EncUb)>>,
      <<IntVarOf("x[0]", EncLb, EncLb + 1), IntVarOf("x[1]", EncLb, EncLb + 1)>>,
      <<IntVarOf("u", 0, 0)>>,
      <<BoolVarOf("bv")>> }

InitOneHot == InitSession("exact", {})

NextOneHot ==
    \/ \E vs \in EncodeInputs : XEncode(vs)
    \/ \E vals \in [1 .. bv_count -> {0, 1}] : XAssign(vals)
    \/ XExtractSolution

SpecOneHot == InitOneHot /\ [][NextOneHot]_vars

---------------------------------------------------------------------------
(* Claims *)

\* the constraints and reifications the last operation posted
Emitted == {calls[i] : i \in {j \in DOMAIN calls : calls[j].fn \notin {"addVariable", "init"}}}

\* the assignments of the variables of e that satisfy every emitted primitive
Accepted(e) == {A \in Assignments(get_variables(e)) : \A call \in Emitted : SatCall(call, A)}

\* the assignments of the variables of e that satisfy e
Models(e) == {A \in Assignments(get_variables(e)) : EvalCon(e, A)}

IsIndicator(e) == e.k = "op" /\ e.name = "->"

\* C1: whenever _post_constraint handles an indicator constraint cond -> cmp
\* (cond a Boolean variable or its negated view, cmp with ==, >= or <=), all
\* the primitives it emitted are Right/Left reifications, and the assignments
\* (condition in {0,1}, integers in [0,DomUb]) that satisfy all of them are
\* exactly the assignments that satisfy the implication.
C1_IndicatorEquivalence ==
    (lastOp.op = "add" /\ IsIndicator(lastOp.e) /\ ret.exc = NoErr)
        => /\ Emitted # {}
           /\ \A call \in Emitted : call.fn \in {"addRightReification", "addLeftReification"}
           /\ Accepted(lastOp.e) = Models(lastOp.e)

\* C1 witness: not(a) -> (lhs == y) over two integer variables was posted as
\* two Left reifications
C1_Witness ==
    /\ lastOp.op = "add" /\ IsIndicator(lastOp.e) /\ ret.exc = NoErr
    /\ IsNegBoolView(lastOp.e.args[1])
    /\ lastOp.e.args[2].name = "=="
    /\ get_variables(lastOp.e) = {"a", "x", "y"}
    /\ Cardinality(Emitted) = 2
    /\ Models(lastOp.e) # {} /\ Models(lastOp.e) # Assignments(get_variables(lastOp.e))

PlainVar(e) == e.k = "var" /\ e.name \in BoolVars \cup IntVars
PlainLeaf(e) == is_num(e) \/ PlainVar(e)

\* a left side that is a constant, a variable, a sum, a wsum or a sub, over
\* Boolean and integer variables and (sum, wsum) constants
LinearLhs(e) ==
    \/ PlainLeaf(e)
    \/ e.k = "op" /\ e.name \in {"sum", "wsum"} /\ \A i \in DOMAIN e.args : PlainLeaf(e.args[i])
    \/ e.k = "op" /\ e.name = "sub" /\ Len(e.args) = 2 /\ \A i \in DOMAIN e.args : PlainVar(e.args[i])

\* a comparison compile_comparison is specified for
LinearComparison(e) ==
    /\ e.k = "cmp" /\ e.name \in {"<=", ">=", "=="}
    /\ LinearLhs(e.args[1]) /\ PlainLeaf(e.args[2])

\* the bounds (hasLower, lower, hasUpper, upper) specified for an operator,
\* a don't-care bound compared as equal
BoundsAsSpecified(call, nm, rhs) ==
    CASE nm = "<=" -> ~call.uselb /\ call.useub /\ call.ub = rhs
      [] nm = ">=" -> call.uselb /\ call.lb = rhs /\ ~call.useub
      [] OTHER -> call.uselb /\ call.lb = rhs /\ call.useub /\ call.ub = rhs

\* C2: posting a comparison (<=, >=, ==) whose left side is a constant,
\* variable, sum, wsum or sub and whose right side is a constant or variable
\* emits exactly one bounded-linear primitive, with the bounds specified for
\* the operator, and the assignments within the declared domains that satisfy
\* the primitive are exactly those that satisfy the comparison.
C2_ComparisonCompiled ==
    (lastOp.op = "add" /\ LinearComparison(lastOp.e))
        => /\ ret.exc = NoErr
           /\ Cardinality(Emitted) = 1
           /\ \A call \in Emitted :
                 /\ call.fn = "addConstraint"
                 /\ BoundsAsSpecified(call, lastOp.e.name,
                        make_numexpr([Ctx EXCEPT !.varmap = << >>],
                                     lastOp.e.args[1], lastOp.e.args[2]).rhs)
           /\ Accepted(lastOp.e) = Models(lastOp.e)

\* the same statement for the comparisons that have at least one variable
C2_WithAVariable ==
    (lastOp.op = "add" /\ LinearComparison(lastOp.e) /\ get_variables(lastOp.e) # {})
        => /\ ret.exc = NoErr
           /\ Cardinality(Emitted) = 1
           /\ \A call \in Emitted :
                 /\ call.fn = "addConstraint"
                 /\ BoundsAsSpecified(call, lastOp.e.name,
                        make_numexpr([Ctx EXCEPT !.varmap = << >>],
                                     lastOp.e.args[1], lastOp.e.args[2]).rhs)
           /\ Accepted(lastOp.e) = Models(lastOp.e)

\* the magnitudes of the numbers a call passes to the flat backend
Magnitudes(call) ==
    {Abs(call.coefs[i]) : i \in DOMAIN call.coefs} \cup {Abs(call.lb), Abs(call.ub)}

RoutedByMagnitude(call) == (call.enc = "str") <=> (\E m \in Magnitudes(call) : m > E18)

\* C7: every call that passes numbers to the flat backend (a declaration, a
\* bounded-linear primitive, a reification, the objective) passes them
\* string-encoded if some number of the call has magnitude above 1e18, and as
\* native numbers if none has.
C7_StringRouting ==
    \A i \in DOMAIN calls :
        calls[i].fn \in {"addVariable", "addConstraint", "addRightReification",
                         "addLeftReification", "init"}
            => RoutedByMagnitude(calls[i])

\* the same statement for every call but the objective's init
C7_ExceptObjective ==
    \A i \in DOMAIN calls :
        calls[i].fn \in {"addVariable", "addConstraint", "addRightReification",
                         "addLeftReification"}
            => RoutedByMagnitude(calls[i])

\* the fields of a flat-backend session other than the bookkeeping of the call
SessionState == <<has_objective, objective_minimize, user_vars, varmap, value,
                  objective_value, exitstatus, xct_vars, xct_cons, xct_obj,
                  xct_timeout, xct_has_sol, xct_sol, xct_ub, xct_blocked>>

\* C3: a call of objective() on a session whose objective is already set
\* fails with the assertion error of line 268 and changes nothing: not
\* has_objective, objective_minimize, the tracked variables, the handle cache,
\* nor the backend's objective (no call reaches the backend).
C3_ObjectiveOnce ==
    [][(lastOp'.op = "objective" /\ has_objective)
          => /\ ret'.exc = "AssertionError"
             /\ calls' = <<>>
             /\ UNCHANGED SessionState]_vars

\* C3 witness: a second objective() has failed on a session whose first
\* objective() passed coefficients to the backend
C3_Witness ==
    /\ lastOp.op = "objective" /\ ret.exc = "AssertionError"
    /\ Len(xct_obj) = 1 /\ xct_obj[1].coefs # <<>>

\* the logical negation of a handle
NotOf(h) == [h EXCEPT !.not = ~h.not]

\* solver_var(v) for a Boolean or integer variable v: the first call stores a
\* handle (and, on the flat backend, declares v), a later call returns the
\* stored handle and changes nothing
IdempotentStep ==
    (lastOp'.op = "solver_var" /\ PlainVar(lastOp'.e))
        => /\ ret'.exc = NoErr
           /\ lastOp'.e.name \in DOMAIN varmap'
           /\ ret'.h = varmap'[lastOp'.e.name]
           /\ IF lastOp'.e.name \in DOMAIN varmap
              THEN /\ ret'.h = varmap[lastOp'.e.name]
                   /\ calls' = <<>>
                   /\ UNCHANGED <<SessionState, z3_cons, z3_model>>
              ELSE backend = "exact" =>
                      \E i \in DOMAIN calls' : /\ calls'[i].fn = "addVariable"
                                               /\ calls'[i].head = ret'.h

\* solver_var(NegatedView(v)) is the negation of solver_var(v)
NegationStep ==
    (lastOp'.op = "solver_var" /\ IsNegBoolView(lastOp'.e))
        => /\ ret'.exc = NoErr
           /\ lastOp'.e.name \in DOMAIN varmap'
           /\ ret'.h = NotOf(varmap'[lastOp'.e.name])

\* C4: in both backends solver_var(v) is idempotent for every Boolean or
\* integer variable v, and solver_var(NegatedView(v)) is the logical negation
\* of solver_var(v) for every Boolean variable v.
C4_SolverVar == [][IdempotentStep /\ NegationStep]_vars

\* the same statement without the negated views of the flat backend
C4_ExceptFlatNegation ==
    [][IdempotentStep /\ (backend = "z3" => NegationStep)]_vars

\* the constraints in the backend of a session whose only constraint is a or b
OnlyAorB ==
    add([Sess EXCEPT !.c = [Ctx EXCEPT !.varmap = << >>, !.xct_vars = <<>>,
                                       !.xct_cons = {}]], AorB).c.xct_cons

\* the assignments of a and b that satisfy a or b
ModelsAorB == {A \in Assignments(EnumVars) : EvalNum(Var("a"), A) = 1 \/ EvalNum(Var("b"), A) = 1}

\* solveAll has returned from an enumeration of a session whose only
\* constraint is a or b, with no solution limit or one above 3
EnumeratedAorB ==
    /\ lastOp.op = "solveAll" /\ pc = "idle" /\ ret.exc = NoErr
    /\ xct_cons = OnlyAorB
    /\ (solution_limit = NoLimit \/ solution_limit > 3)

\* C5: solveAll on two Booleans a, b with the single constraint a or b, with
\* no solution limit or a limit above the number of solutions, returns 3: the
\* solutions it counted are exactly the three assignments satisfying a or b,
\* each once; and without a time limit it does not raise.
C5_SolveAllCountsThree ==
    /\ EnumeratedAorB => (ret.n = 3 /\ solsfound = 3 /\ xct_blocked = ModelsAorB)
    /\ (lastOp.op = "solveAll" /\ ~xct_timeout) => ret.exc = NoErr

\* C5 witness: solveAll without a solution limit has returned 3 on a or b and
\* the variables hold the values of the solution found last
C5_Witness ==
    /\ EnumeratedAorB /\ solution_limit = NoLimit /\ ret.n = 3
    /\ value["a"].t = "bool" /\ value["b"].t = "bool"

\* -e as a linear expression: every coefficient and constant negated
Negate(e) ==
    CASE e.k = "num" -> Num(-e.val)
      [] e.k \in {"var", "neg"} -> Wsum(<<-1>>, <<e>>)
      [] e.name = "sum" -> Wsum([i \in DOMAIN e.args |-> -1], e.args)
      [] e.name = "wsum" -> Wsum(NegSeq(e.ws), e.args)
      [] e.name = "sub" -> Op("sub", <<e.args[2], e.args[1]>>)
      [] OTHER -> e

RECURSIVE CoefOf(_, _, _)
\* the total coefficient of variable v in coefs . xvars
CoefOf(v, coefs, xvars) ==
    IF coefs = <<>> THEN 0
    ELSE (IF xvars[1].name = v THEN coefs[1] ELSE 0) + CoefOf(v, Tail(coefs), Tail(xvars))

\* the linear function an init call hands to the backend
LinFun(init) == [v \in Vars |-> CoefOf(v, init.coefs, init.vars)]

\* the session that differs from this one in the direction of its objective
Twin == [Sess EXCEPT !.objective_minimize = ~@]

\* C6: a session that posts minimize(e) (maximize(e)) and one that posts
\* maximize(-e) (minimize(-e)) hand the same linear objective to the backend;
\* and from the same backend solution the two extract the same variable
\* values and objective values that are negations of each other.
C6_MinimizeMaximize ==
    /\ (backend = "exact" /\ lastOp.op = "objective" /\ ret.exc = NoErr)
          => LET twin == objective([Sess EXCEPT !.has_objective = FALSE, !.xct_obj = <<>>],
                                   Negate(lastOp.e), ~lastOp.flag)
             IN /\ twin.c.err = NoErr
                /\ Len(twin.xct_obj) = 1
                /\ LinFun(twin.xct_obj[1]) = LinFun(xct_obj[Len(xct_obj)])
    /\ (backend = "exact" /\ lastOp.op = "solve" /\ ret.exc = NoErr /\ ret.b)
          => LET twin == getSolAndObj(Twin)
             IN /\ twin.value = value
                /\ twin.objective_value.t = "int" /\ objective_value.t = "int"
                /\ twin.objective_value.n = -objective_value.n

\* C6 witness: a session with a maximized objective has solved and reports a
\* nonzero objective value
C6_Witness ==
    /\ backend = "exact" /\ lastOp.op = "solve" /\ ret.exc = NoErr /\ ret.b
    /\ ~objective_minimize
    /\ Len(xct_obj) = 1 /\ xct_obj[1].coefs # <<>>
    /\ objective_value.t = "int" /\ objective_value.n # 0

\* C8: when the search returns the unknown/timeout status (2 on the flat
\* backend, "unknown" on the nested one), solve() does not raise, the exit
\* status is UNKNOWN and no tracked variable holds a value afterwards.
C8_UnknownClearsValues ==
    (lastOp.op = "solve" /\ ret.n = 2)
        => /\ ret.exc = NoErr
           /\ exitstatus = "UNKNOWN"
           /\ \A v \in user_vars : value[v] = NoneVal

\* the same statement for the nested backend alone
C8_NestedBackend == backend = "z3" => C8_UnknownClearsValues

\* getSolAndObj has run: called directly, or at the end of a solve() whose
\* status translation did not raise
Extracted(op, r) == op.op = "getSolAndObj" \/ (op.op = "solve" /\ r.n \in {0, 2})

Reads(cs) == {i \in DOMAIN cs : cs[i].fn \in {"getLastSolutionFor", "getObjectiveBounds"}}

\* C9: when the flat backend has no solution, getSolAndObj returns False,
\* sets the objective value to None, leaves the value of every variable as
\* it was, and reads neither values nor objective bounds from the backend.
C9_NoSolutionKeepsValues ==
    [][(backend = "exact" /\ Extracted(lastOp', ret') /\ ~xct_has_sol')
          => /\ ret'.exc = NoErr /\ ret'.b = FALSE
             /\ objective_value' = NoneVal
             /\ value' = value
             /\ Reads(calls') = {}]_vars

\* C9 witness: getSolAndObj found no solution in the backend while a variable
\* held a value of an earlier solve
C9_Witness ==
    /\ backend = "exact" /\ Extracted(lastOp, ret) /\ ~xct_has_sol
    /\ ret.b = FALSE
    /\ \E v \in user_vars : value[v] # NoneVal

\* C10: when the flat backend has a solution, getSolAndObj returns True, every
\* tracked variable holds the value the backend reports for its handle (a
\* Boolean as a bool, an integer as it is), and the objective value is the
\* backend's upper bound if the session minimizes, its negation otherwise.
C10_SolutionExtracted ==
    (backend = "exact" /\ Extracted(lastOp, ret) /\ xct_has_sol)
        => /\ ret.exc = NoErr /\ ret.b = TRUE
           /\ \A v \in user_vars :
                 /\ v \in DOMAIN varmap
                 /\ value[v] = [t |-> IF v \in BoolVars THEN "bool" ELSE "int",
                                n |-> xct_sol[varmap[v].name]]
           /\ objective_value = [t |-> "int",
                                 n |-> IF objective_minimize THEN xct_ub ELSE -xct_ub]
           /\ Reads(calls) # {}

\* C10 witness: a maximizing session extracted a solution with a true Boolean,
\* a nonzero integer and a nonzero objective bound
C10_Witness ==
    /\ backend = "exact" /\ Extracted(lastOp, ret) /\ xct_has_sol /\ ret.b
    /\ ~objective_minimize /\ xct_ub # 0
    /\ user_vars = {"a", "n"}
    /\ value["a"] = [t |-> "bool", n |-> 1] /\ value["n"].n # 0


---------------------------------------------------------------------------
(* C11: the one-hot decoder *)

\* the entries of the ivarmap are the value maps of integer variables
OneHotMaps == \A i \in 1 .. Len(ivarmap) : ivarmap[i].kind = "dict"

\* the values of entry i whose Boolean is true now
ValuesSet(i) == {k \in DOMAIN ivarmap[i].map : bv_value[ivarmap[i].map[k]] = BoolVal(1)}

\* every entry has exactly one Boolean that is true
Unambiguous == \A i \in 1 .. Len(ivarmap) : Cardinality(ValuesSet(i)) = 1

\* extract_solution was the last call, on the value maps of integer variables
Decoded == lastOp.op = "extract_solution" /\ OneHotMaps

\* C11: when exactly one Boolean of every value map is true, extract_solution
\* returns for each variable the one value of its domain whose Boolean is true
\* (so the decoding of the one-hot assignment of value k is k, for every k of
\* the domain); when no Boolean or more than one Boolean of a map is true it
\* fails with the assertion error of line 173.
C11_OneHotDecode ==
    Decoded =>
        IF Unambiguous
        THEN /\ ret.exc = NoErr
             /\ enc_sol = UNION {{ivarmap[i].iv} \X ValuesSet(i) : i \in 1 .. Len(ivarmap)}
             /\ \A i \in 1 .. Len(ivarmap) :
                   Cardinality({p \in enc_sol : p[1] = ivarmap[i].iv}) = 1
        ELSE ret.exc = "AssertionError"

\* the one-hot assignment of the largest value of the domain was decoded
C11_Witness ==
    /\ Decoded /\ Unambiguous
    /\ enc_in = <<IntVarOf("iv", EncLb, EncUb)>>
    /\ enc_sol = {<<"iv", EncUb>>}

---------------------------------------------------------------------------
(* C12: the one-hot encoder *)

\* the Booleans of entry i of the ivarmap
BvsOf(im, i) == {im[i].map[k] : k \in DOMAIN im[i].map}

\* entry i of the ivarmap im encodes the integer variable v with Booleans
\* that did not exist when count Booleans existed, and cons has its
\* exactly-one constraint
IntEncoded(im, cons, i, v, count) ==
    /\ im[i].iv = v.name /\ im[i].kind = "dict"
    /\ DOMAIN im[i].map = v.lb .. v.ub
    /\ Cardinality(DOMAIN im[i].map) = v.ub - v.lb + 1
    /\ Cardinality(BvsOf(im, i)) = v.ub - v.lb + 1
    /\ \A b \in BvsOf(im, i) : b > count
    /\ \A j \in 1 .. Len(im) : j # i /\ im[j].kind = "dict" => BvsOf(im, j) \cap BvsOf(im, i) = {}
    /\ ExactlyOne(BvsOf(im, i)) \in cons

\* entry i of the ivarmap im maps the Boolean variable v to itself
BoolEncoded(im, i, v) == im[i].iv = v.name /\ im[i].kind = "self"

\* the result of intvar_to_boolvar(vs) when count Booleans existed
EncodedAs(vs, im, cons, count) ==
    /\ Len(im) = Len(vs)
    /\ \A i \in 1 .. Len(vs) :
          IF vs[i].kind = "int" THEN IntEncoded(im, cons, i, vs[i], count)
          ELSE BoolEncoded(im, i, vs[i])
    /\ Cardinality(cons) = Cardinality({i \in 1 .. Len(vs) : vs[i].kind = "int"})

\* C12: intvar_to_boolvar of an integer variable with domain [lb, ub] returns
\* a map with exactly ub - lb + 1 entries, one per value, whose Booleans are
\* new and pairwise distinct, and the constraint that exactly one of them is
\* true; of an array it returns one such map per element; of a Boolean
\* variable it returns the variable itself and no constraint.
C12_OneHotEncode ==
    [][lastOp'.op = "intvar_to_boolvar" => EncodedAs(enc_in', ivarmap', enc_cons', bv_count)]_vars

\* an array was encoded when Booleans of an earlier encoding existed
C12_Witness ==
    /\ lastOp.op = "intvar_to_boolvar"
    /\ Len(enc_in) = 2 /\ Len(ivarmap) = 2
    /\ bv_count = 5

---------------------------------------------------------------------------
(* C13: assumptions and cores on the flat backend *)

\* the last call was solve() with assumptions
SolvedAssuming == lastOp.op = "solve(assumptions)"

\* the backend calls of the last operation, by name
CallsMade == {calls[i].fn : i \in 1 .. Len(calls)}

\* C13: solve() with assumptions raises, the search is not run, and
\* get_core() always raises.
C13_AssumptionsRejected ==
    /\ SolvedAssuming => (ret.exc = "AssertionError" /\ "runFull" \notin CallsMade)
    /\ lastOp.op = "get_core" => ret.exc = "NotImplementedError"

\* C13: solve() with assumptions fails immediately: it raises before the
\* backend objective is initialised, before any backend option is set and
\* before the search is run; get_core() always fails.
C13_AssumptionsFailImmediately ==
    /\ C13_AssumptionsRejected
    /\ SolvedAssuming => calls = <<>>

\* solve(time_limit, assumptions) on a session without objective: init and
\* setOption were called before the exception
C13_Witness ==
    /\ SolvedAssuming /\ lastOp.flag
    /\ {"init", "setOption"} \subseteq CallsMade

---------------------------------------------------------------------------
(* C14: the status translation of solve() on the flat backend *)

\* the last call was solve() without assumptions; ret.n is the status that
\* runFull() returned
Solved == backend = "exact" /\ lastOp.op = "solve"

\* the backend calls that read the solution
SolutionReads == {"hasSolution", "getLastSolutionFor", "getObjectiveBounds"}

\* C14: solve() translates status 0 to OPTIMAL when the backend has a
\* solution and to UNSATISFIABLE when it has none, and status 2 to UNKNOWN;
\* on every other status, 1 and 3 included, it raises NotImplementedError with
\* the status and reads nothing of the solution.
C14_StatusTranslation ==
    Solved =>
        CASE ret.n = 0 -> exitstatus = IF xct_has_sol THEN "OPTIMAL" ELSE "UNSATISFIABLE"
          [] ret.n = 2 -> exitstatus = "UNKNOWN"
          [] OTHER -> /\ ret.exc = "NotImplementedError"
                      /\ CallsMade \cap SolutionReads = {}
                      /\ exitstatus \notin {"OPTIMAL", "UNSATISFIABLE", "UNKNOWN"}

\* runFull() returned 1 with a solution in the backend, and solve() raised
C14_Witness ==
    /\ Solved /\ ret.n = 1 /\ xct_has_sol
    /\ ret.exc = "NotImplementedError"

\* runFull() returned 0 and solve() reported OPTIMAL
C14_Optimal == Solved /\ ret.n = 0 /\ exitstatus = "OPTIMAL" /\ ret.exc = NoErr

---------------------------------------------------------------------------
(* C15: constraints that the nested backend does not support *)

\* the last call posted con to a new z3 session
Z3Added == backend = "z3" /\ lastOp.op = "z3_add"

\* the nodes that _z3_expr lists
Listed(e) ==
    \/ e.k \in {"num", "list", "var", "neg"}
    \/ e.k = "op" /\ e.name \in {"and", "or", "xor", "->", "sum", "wsum"}
    \/ e.k = "cmp" /\ e.name \in {"<=", "<", ">=", ">", "!=", "=="}
    \/ e.k = "glob" /\ e.name = "alldifferent"

\* the assertions that are no bounds of a declared variable
Asserted == {c \in z3_cons : "z3" \in DOMAIN c}

\* C15: posting a node that is no constant, list, variable, and, or, xor, ->,
\* sum, wsum, comparison with <=, <, >=, >, != or ==, or alldifferent fails
\* with NotImplementedError and asserts nothing; no translation is ever None,
\* so None is never asserted, in particular not for an Operator or a
\* Comparison with a name that is not listed.
C15_UnsupportedConstraint ==
    /\ (Z3Added /\ ~Listed(lastOp.e)) => (ret.exc = "NotImplementedError" /\ Asserted = {})
    /\ \A c \in Asserted : c # ZNone /\ \A i \in 1 .. Len(c.args) : c.args[i] # ZNone

\* a Comparison that is not listed was posted: its arguments were translated,
\* which declared x with its bounds, and then the call raised
C15_Witness ==
    /\ Z3Added /\ lastOp.e = Cmp("=<", Var("x"), Num(3))
    /\ ret.exc = "NotImplementedError"
    /\ "x" \in DOMAIN varmap /\ Cardinality(z3_cons) = 2

---------------------------------------------------------------------------
(* C16: three clauses end to end on the flat backend *)

\* the primitives that posting con emits
PrimitivesOf(con) == add([Sess EXCEPT !.c.xct_cons = {}], con).c.xct_cons

\* con was posted to the session
Posted(con) == PrimitivesOf(con) # {} /\ PrimitivesOf(con) \subseteq xct_cons

\* the literal e is true under the values of the variables
LiteralHolds(e) == value[e.name] = BoolVal(IF e.k = "neg" THEN 0 ELSE 1)

\* a literal of the clause is true under the values of the variables
ClauseHolds(cl) == \E i \in DOMAIN cl.args : LiteralHolds(cl.args[i])

\* the session with the three clauses was solved
ClausesSolved == lastOp.op = "solve" /\ \A cl \in Clauses : Posted(cl)

\* C16: a session with the clauses a or b, ~a or c, ~b or ~c is reported
\* satisfiable by solve(), and the values of a, b, c satisfy the three
\* clauses; with a = 1, b = 0, c = 0 posted as well it is reported
\* unsatisfiable.
C16_ThreeClauses ==
    /\ (ClausesSolved /\ \A f \in Forced : ~Posted(f))
          => /\ ret.exc = NoErr /\ ret.b /\ exitstatus = "OPTIMAL"
             /\ \A cl \in Clauses : ClauseHolds(cl)
    /\ (ClausesSolved /\ \A f \in Forced : Posted(f))
          => ret.exc = NoErr /\ ~ret.b /\ exitstatus = "UNSATISFIABLE"

\* the three clauses were solved, and then again with a, b, c forced
C16_Witness ==
    /\ ClausesSolved /\ \A f \in Forced : Posted(f)
    /\ exitstatus = "UNSATISFIABLE"
    /\ value["a"] # NoneVal

\* the three clauses alone were solved
C16_Satisfiable ==
    ClausesSolved /\ (\A f \in Forced : ~Posted(f)) /\ exitstatus = "OPTIMAL"

---------------------------------------------------------------------------
(* C17: the enumeration loop of solveAll *)

\* solveAll is running or was the last call
InSolveAll == lastOp.op = "solveAll"

\* solveAll has returned a count
Returned == InSolveAll /\ pc = "idle" /\ ret.exc = NoErr

\* the names of the backend calls of the last step, in order
CallNames == [i \in 1 .. Len(calls) |-> calls[i].fn]

\* the last step ran the backend, then read the solution into the values of
\* the tracked variables, and invalidated that solution as its last call
ExtractedThenInvalidated ==
    /\ CallNames[1] = "runOnce"
    /\ \E i \in 2 .. Len(calls) - 1 : CallNames[i] = "getLastSolutionFor"
    /\ CallNames[Len(calls)] = "invalidateLastSol"
    /\ {i \in 1 .. Len(calls) : CallNames[i] \in {"runOnce", "invalidateLastSol"}} = {1, Len(calls)}
    /\ \A v \in user_vars : value[v] = BoolVal(xct_sol[v])
    /\ xct_sol \in xct_blocked

\* C17: whatever statuses runOnce returns and whatever the solution limit L,
\* the count of solveAll never exceeds L and is the number of times runOnce
\* returned 1 since the call began, which is what solveAll returns when the
\* backend returns 0 or the limit is reached; a step in which runOnce returns
\* 1 extracts the values and then invalidates the solution before runOnce is
\* called again; with L = 0 runOnce is never called.
C17_Enumeration ==
    [][/\ (InSolveAll' /\ solution_limit' # NoLimit) => solsfound' <= solution_limit'
       /\ InSolveAll' => solsfound' = xct_found'
       /\ Returned' => ret'.n = xct_found'
       /\ (pc = "solveAll" /\ calls' # <<>> /\ xct_status' = 1) => ExtractedThenInvalidated'
       /\ (InSolveAll' /\ solution_limit' = 0) => (xct_status' = NoStatus /\ "runOnce" \notin CallsMade')
      ]_vars

\* solveAll with limit 2 returned 2 after runOnce had also returned 3
C17_Witness ==
    /\ Returned /\ solution_limit = 2 /\ ret.n = 2
    /\ Cardinality(xct_blocked) = 2 /\ user_vars = {"a", "b"}

\* solveAll with limit 0 returned 0
C17_LimitZero == Returned /\ solution_limit = 0 /\ ret.n = 0

---------------------------------------------------------------------------
(* C18: termination of solveAll *)

\* a step of the loop of solveAll in which runOnce returned status
RanOnce(status) == pc = "solveAll" /\ calls' # <<>> /\ xct_status' = status

\* C18: solveAll has no iteration bound of its own.  When runOnce does not
\* return 3 forever, a solveAll with a solution limit returns (or raises),
\* and one without limit does so when runOnce also does not avoid 0 forever
\* (as far as the bound MaxSols of the model lets it count).  A run that
\* returns 3 leaves the loop where it was, and without limit a run that
\* returns 1 stays in the loop: a backend that keeps returning 3, or without
\* limit 1, keeps solveAll from returning.
C18_Termination ==
    /\ (pc = "solveAll" /\ solution_limit # NoLimit) ~> (pc = "idle")
    /\ (pc = "solveAll" /\ solution_limit = NoLimit) ~> (pc = "idle" \/ solsfound = MaxSols)
    /\ [][RanOnce(3) => (pc' = "solveAll" /\ solsfound' = solsfound /\ ret' = ret)]_vars
    /\ [][(RanOnce(1) /\ solution_limit = NoLimit /\ ret'.exc = NoErr) => pc' = "solveAll"]_vars

\* a solveAll without solution limit has counted as far as the model lets it
\* and is still in its loop
C18_Witness ==
    /\ pc = "solveAll" /\ solution_limit = NoLimit /\ solsfound = MaxSols
    /\ xct_status = 1

---------------------------------------------------------------------------
(* C19: a timeout during solveAll *)

\* runOnce returned 2 in the last solveAll
TimedOut == InSolveAll /\ xct_status = 2

\* C19: when runOnce returns 2 (unknown, the time limit expired) solveAll
\* does not raise: it stops enumerating and returns the number of solutions
\* found so far.
C19_TimeoutReturnsCount ==
    TimedOut => (pc = "idle" /\ ret.exc = NoErr /\ ret.n = solsfound)

\* what the code does on status 2: the enumeration stops with the assertion
\* error of line 211, and no count is returned
C19_TimeoutRaises ==
    TimedOut => (pc = "idle" /\ ret.exc = "AssertionError")

---------------------------------------------------------------------------
(* C20: the handle cache *)

\* the variables declared to the flat backend, one entry per addVariable
DeclaredNames == [i \in 1 .. Len(xct_vars) |-> xct_vars[i].head.name]

\* every variable is declared at most once
DeclaredOnce == \A i, j \in 1 .. Len(xct_vars) : DeclaredNames[i] = DeclaredNames[j] => i = j

\* C20: over any sequence of posting constraints, setting the objective,
\* asking for handles, solve and solveAll, no step removes a key of the
\* handle cache or replaces the handle of a key; every key is a Boolean or
\* integer variable, never a negated view; and on the flat backend the
\* declared variables are exactly the keys, each declared once.
C20_HandleCache ==
    [][/\ \A k \in DOMAIN varmap : k \in DOMAIN varmap' /\ varmap'[k] = varmap[k]
       /\ DOMAIN varmap' \subseteq BoolVars \cup IntVars
       /\ \A k \in DOMAIN varmap' : varmap'[k] = Handle(k)
       /\ backend' = "exact" =>
             /\ {DeclaredNames'[i] : i \in 1 .. Len(xct_vars')} = DOMAIN varmap'
             /\ DeclaredOnce'
       /\ backend' = "z3" => xct_vars' = <<>>
      ]_vars

\* a and n are cached on the flat backend after a negated view of a was
\* given to solver_var, and a solveAll has run
C20_Witness ==
    /\ backend = "exact" /\ DOMAIN varmap = {"a", "n"} /\ Len(xct_vars) = 2
    /\ lastOp.op = "solver_var" /\ lastOp.e = NegView("a")
    /\ xct_blocked # {}

---------------------------------------------------------------------------
(* C21: the initialisation of the backend's objective *)

\* the last operation made a search run of the flat backend
SearchRan == \E i \in DOMAIN calls : calls[i].fn \in {"runFull", "runOnce"}

\* C21: over any sequence of objective(), solve() and solveAll() calls on one
\* session of the flat backend, init is invoked exactly once and before the
\* first search run (by objective() if it comes first, else with an empty
\* objective by the first solve()/solveAll()): init has never been invoked
\* more than once, and when a search run is made it has been invoked once.
C21_InitOnce ==
    backend = "exact" =>
        /\ Len(xct_obj) <= 1
        /\ SearchRan => Len(xct_obj) = 1

\* the part of C21 the code keeps: init is never invoked twice, has_objective
\* never goes back to false, it is set whenever init was invoked or a search
\* was made, and objective() on a session with has_objective set fails
C21_FlagNeverReset ==
    [][backend = "exact" =>
          /\ Len(xct_obj') <= 1
          /\ has_objective => has_objective'
          /\ (Len(xct_obj') = 1 \/ SearchRan') => has_objective'
          /\ (has_objective /\ lastOp'.op = "objective" /\ calls' = <<>>)
                => ret'.exc = "AssertionError"
      ]_vars

\* what the code does: an objective() that fails in _make_numexpr has set
\* has_objective already, and the solve() after it searches on a backend on
\* which init was never invoked
C21_SearchWithoutInit ==
    backend = "exact" /\ SearchRan /\ has_objective /\ xct_obj = <<>>

---------------------------------------------------------------------------
(* C22: _make_numexpr *)

\* _make_numexpr was called directly; its arguments
MadeNumexprOf(l, r) == lastOp.op = "_make_numexpr" /\ lastOp.e = List(<<l, r>>)
NumLhs == lastOp.e.args[1]
NumRhs == lastOp.e.args[2]

\* a left side C22 speaks of: a constant, a variable, or a sum, a wsum or a
\* two-argument sub over constants and variables (Boolean or integer)
SupportedLhs(e) ==
    \/ PlainLeaf(e)
    \/ /\ e.k = "op" /\ e.name \in {"sum", "wsum", "sub"}
       /\ \A i \in DOMAIN e.args : PlainLeaf(e.args[i])
       /\ e.name = "wsum" => Len(e.ws) = Len(e.args)
       /\ e.name = "sub" => Len(e.args) = 2

\* a node kind _make_numexpr has no branch for
OtherKind(e) == e.k \in {"op", "cmp", "glob"} /\ e.name \notin {"sum", "wsum", "sub"}

\* the tuple returned stands for lhs - rhs: sum(coefs * vars) - rhs' has the
\* value of lhs minus the value of rhs under every assignment
SameValue(l, r) ==
    /\ ret.exc = NoErr
    /\ Len(numexpr.coefs) = Len(numexpr.vars)
    /\ \A A \in Assignments(get_variables(lastOp.e)) :
          Dot(numexpr.coefs, numexpr.vars, A) - numexpr.rhs = EvalNum(l, A) - EvalNum(r, A)

\* C22: for every left side that is a constant, a variable, a sum, a wsum or
\* a two-argument sub and every right side that is a constant or a variable,
\* _make_numexpr returns (coefs, vars, rhs') of equal length whose value
\* sum(coefs*vars) - rhs' is value(lhs) - value(rhs) under every assignment;
\* for any other left or right node kind it raises NotImplementedError (the
\* spec's UnsupportedExpression).
C22_MakeNumexpr ==
    lastOp.op = "_make_numexpr" =>
        /\ (SupportedLhs(NumLhs) /\ PlainLeaf(NumRhs)) => SameValue(NumLhs, NumRhs)
        /\ (OtherKind(NumRhs) \/ (PlainLeaf(NumRhs) /\ OtherKind(NumLhs)))
              => ret.exc = "NotImplementedError"

\* the same statement without the subs that have a constant operand: the
\* code gives both operands of a sub to solver_var, which asserts that its
\* argument is no number
C22_ExceptConstantInSub ==
    lastOp.op = "_make_numexpr" =>
        /\ (LinearLhs(NumLhs) /\ PlainLeaf(NumRhs)) => SameValue(NumLhs, NumRhs)
        /\ (OtherKind(NumRhs) \/ (PlainLeaf(NumRhs) /\ OtherKind(NumLhs)))
              => ret.exc = "NotImplementedError"

\* what the code does for x - 2 on the left: the assertion of solver_var
\* fails after x has been declared, and nothing is returned
C22_ConstantInSubRaises ==
    /\ MadeNumexprOf(Op("sub", <<Var("x"), Num(2)>>), Num(0))
    /\ ret.exc = "AssertionError" /\ numexpr = NoNumExpr

---------------------------------------------------------------------------
(* C23: sums with compound arguments on the nested backend *)

Compound(e) == e.k \notin {"num", "var", "neg"}

\* a sum or wsum node
SumNode(e) == e.k = "op" /\ e.name \in {"sum", "wsum"}

\* a sum or wsum with an argument that is itself a compound expression
NestedSum(e) == SumNode(e) /\ \E i \in DOMAIN e.args : Compound(e.args[i])

\* a sum or wsum over constants, variables and negated views
FlatSum(e) == SumNode(e) /\ \A i \in DOMAIN e.args : ~Compound(e.args[i])

\* the z3 expression of a constant, a variable or a negated view
LeafZ(e) ==
    CASE e.k = "num" -> ZX("num", <<>>, NoHandle, e.val)
      [] e.k = "var" -> ZX("var", <<>>, Handle(e.name), 0)
      [] OTHER -> ZX("var", <<>>, Z3Not(Handle(e.name)), 0)

\* the native addition over the arguments of a flat sum or wsum
SumZ(e) ==
    ZX("Sum",
       [i \in DOMAIN e.args |->
           IF e.name = "sum" THEN LeafZ(e.args[i])
           ELSE ZX("*", <<ZX("num", <<>>, NoHandle, e.ws[i]), LeafZ(e.args[i])>>, NoHandle, 0)],
       NoHandle, 0)

\* the last call posted a comparison of a sum or wsum with a constant
SumCompared == Z3Added /\ lastOp.e.k = "cmp" /\ lastOp.e.name \in Z3Comparisons
               /\ SumNode(lastOp.e.args[1]) /\ is_num(lastOp.e.args[2])

\* C23: _z3_expr lowers arbitrarily nested expressions: a comparison whose
\* side is a sum or wsum with compound arguments (a sum containing a wsum, a
\* sum of sums) is translated without error and asserted as the comparison
\* of the native addition over as many translated arguments.
C23_NestedSums ==
    (SumCompared /\ NestedSum(lastOp.e.args[1]))
        => /\ ret.exc = NoErr
           /\ Asserted # {}
           /\ \A c \in Asserted :
                 /\ c.z3 = lastOp.e.name
                 /\ c.args[1].z3 = "Sum"
                 /\ Len(c.args[1].args) = Len(lastOp.e.args[1].args)

\* the part of C23 the code keeps: a sum or wsum over constants, variables
\* and negated views is asserted as the native addition over their handles
C23_FlatSums ==
    (SumCompared /\ FlatSum(lastOp.e.args[1]))
        => /\ ret.exc = NoErr
           /\ Asserted = {ZX(lastOp.e.name, <<SumZ(lastOp.e.args[1]), LeafZ(lastOp.e.args[2])>>,
                             NoHandle, 0)}

\* what the code does for x + (2*x - y) <= 3: the arguments of a sum go to
\* solver_var, which takes the wsum for a variable of an unknown kind
C23_NestedSumRaises ==
    /\ SumCompared /\ NestedSum(lastOp.e.args[1])
    /\ lastOp.e.args[1].args[2] = Wsum(<<2, -1>>, <<Var("x"), Var("y")>>)
    /\ ret.exc = "NotImplementedError" /\ Asserted = {}
    /\ "x" \in DOMAIN varmap

---------------------------------------------------------------------------
(* C24: indicator constraints that _post_constraint rejects *)

\* an indicator constraint was given to _post_constraint
IndicatorPosted == backend = "exact" /\ lastOp.op = "add" /\ IsIndicator(lastOp.e)

\* its condition is a Boolean variable or the negated view of one
CondIsBool(e) == e.args[1].k \in {"var", "neg"} /\ e.args[1].name \in BoolVars

\* its consequent is a comparison whose left side is a variable, sum or wsum
ConsequentIsLinear(e) ==
    /\ e.args[2].k = "cmp"
    /\ \/ e.args[2].args[1].k \in {"var", "neg"}
       \/ e.args[2].args[1].k = "op" /\ e.args[2].args[1].name \in {"sum", "wsum"}

\* the operands of the comparison are ones _make_numexpr accepts
OperandsSupported(e) ==
    /\ LinearLhs(e.args[2].args[1])
    /\ PlainLeaf(e.args[2].args[2])

\* C24: _post_constraint rejects a malformed indicator before it calls the
\* backend at all: when the condition is no Boolean variable or negated view,
\* the consequent no comparison, or the left side of the comparison no
\* variable, sum or wsum (a sub is rejected here).  For a well-formed
\* indicator with an operator other than ==, >=, <= it fails without posting
\* a reification, with NotImplementedError (the spec's UnsupportedConstraint)
\* when _make_numexpr accepts the operands.
C24_IndicatorRejects ==
    IndicatorPosted =>
        /\ ~(CondIsBool(lastOp.e) /\ ConsequentIsLinear(lastOp.e))
              => (ret.exc \in {"AssertionError", "AttributeError"} /\ calls = <<>>)
        /\ (CondIsBool(lastOp.e) /\ ConsequentIsLinear(lastOp.e)
              /\ lastOp.e.args[2].name \notin {"==", ">=", "<="})
              => /\ ret.exc # NoErr
                 /\ Emitted = {}
                 /\ OperandsSupported(lastOp.e) => ret.exc = "NotImplementedError"

\* a -> (x - y == y) was rejected although the same comparison alone is
\* compiled: the assertion failed and the backend was not called
C24_Witness ==
    /\ IndicatorPosted
    /\ lastOp.e = Op("->", <<Var("a"), Cmp("==", Op("sub", <<Var("x"), Var("y")>>), Var("y"))>>)
    /\ ret.exc = "AssertionError" /\ calls = <<>> /\ varmap = << >>

\* ~a -> (x + y != 3) failed on its operator after x, y and a were declared,
\* without any reification
C24_OperatorRejected ==
    /\ IndicatorPosted
    /\ lastOp.e = Op("->", <<NegView("a"), Cmp("!=", Op("sum", <<Var("x"), Var("y")>>), Num(3))>>)
    /\ ret.exc = "NotImplementedError" /\ Emitted = {} /\ Len(calls) = 3

---------------------------------------------------------------------------
(* C25: a constraint that _post_constraint rejects *)

\* the step gave a comparison or an indicator constraint to _post_constraint,
\* which raised NotImplementedError (the spec's UnsupportedExpression and
\* UnsupportedConstraint)
RejectedUnsupported ==
    /\ backend = "exact" /\ lastOp'.op = "add"
    /\ lastOp'.e.k = "cmp" \/ IsIndicator(lastOp'.e)
    /\ ret'.exc = "NotImplementedError"

\* C25: compiling one constraint is all-or-nothing: when _post_constraint
\* fails with NotImplementedError (a left or right node kind _make_numexpr
\* does not support, or a comparison operator outside <=, >=, ==), no
\* primitive has been posted for the constraint, and the handle cache and the
\* variables declared to the backend are what they were before the call.
C25_AllOrNothing ==
    [][RejectedUnsupported =>
          /\ xct_cons' = xct_cons
          /\ varmap' = varmap
          /\ xct_vars' = xct_vars
      ]_vars

\* the part of C25 the code keeps: no constraint or reification is posted,
\* and the cache and the declarations only grow, together
C25_NoPrimitivePosted ==
    [][RejectedUnsupported =>
          /\ xct_cons' = xct_cons
          /\ \A i \in DOMAIN calls' : calls'[i].fn = "addVariable"
          /\ \A v \in DOMAIN varmap : v \in DOMAIN varmap' /\ varmap'[v] = varmap[v]
          /\ DOMAIN varmap' = DOMAIN varmap \cup {calls'[i].head.name : i \in DOMAIN calls'}
      ]_vars

\* what the code does for x + y < 3: _make_numexpr declares and caches x and
\* y before the operator is looked at
C25_DeclaredBeforeRaising ==
    /\ backend = "exact" /\ lastOp.op = "add"
    /\ lastOp.e = Cmp("<", Op("sum", <<Var("x"), Var("y")>>), Num(3))
    /\ ret.exc = "NotImplementedError"
    /\ xct_cons = {} /\ DOMAIN varmap = {"x", "y"} /\ Len(xct_vars) = 2

=============================================================================
